---- MODULE Spec2Model ----
(***************************************************************************)
(* A model of the query-execution pipeline of fastgql:                     *)
(*   - gql_ast/translator.py  : Translator (document -> selection tree)    *)
(*   - execute/utils.py       : CacheDict, parse_value                     *)
(*   - execute/executor.py    : Executor.execute                           *)
(*   - execute/resolver.py    : Resolver (concurrent field resolution)     *)
(*   - query_builders/sql/config.py : QueryBuilderConfig.from_info         *)
(*                                                                         *)
(* Python dicts are insertion-ordered: they are modelled as sequences of   *)
(* <<key, value>> pairs.  Node.id (gql_ast/models.py) carries no content   *)
(* and is left out of the node records; nodes are taken as constructed.    *)
(***************************************************************************)
EXTENDS Integers, Sequences, FiniteSets, TLC

VARIABLES
    \* ---- translator run (SpecTranslate)
    tDoc,        \* the parsed document handed to Translator
    tOut,        \* what Translator.translate returned, or NotRun
    \* ---- one request's resolution (SpecResolve)
    rDoc,        \* the request's document
    rEnv,        \* what the application callables do, and the request's variables
    units,       \* the coroutines of the request: unit id -> unit record
    errors,      \* Resolver.errors
    rResult,     \* the Result of Executor.execute, or NotRun
    \* ---- executor and its cache (SpecExec, SpecCache)
    cache,       \* Executor.root_nodes_cache: a CacheDict, oldest entry first
    heap,        \* the selection trees alive in the process: tree id -> tree
    reqs,        \* the calls of Executor.execute in flight
    probe,       \* history: the requests started and the last one returned;
                 \* in SpecCache the last operation on the CacheDict
    \* ---- query builders (SpecBuild, SpecSetters)
    qbReq,       \* what the builders are made for: the field's node, or a class
    qbs,         \* the QueryBuilder objects alive: builder id -> builder
    qbOut        \* the last call on a builder and how it ended, or NotRun

vars == <<tDoc, tOut, rDoc, rEnv, units, errors, rResult, cache, heap, reqs, probe,
          qbReq, qbs, qbOut>>

NotRun == [k |-> "notrun"]

-----------------------------------------------------------------------------
(* Python dict as a sequence of <<key, value>> pairs                        *)

RECURSIVE DictIndex(_, _)
DictIndex(d, key) ==
    IF d = <<>> THEN 0
    ELSE IF d[Len(d)][1] = key /\ DictIndex(SubSeq(d, 1, Len(d) - 1), key) = 0
         THEN Len(d)
         ELSE DictIndex(SubSeq(d, 1, Len(d) - 1), key)

DictHas(d, key) == \E i \in 1..Len(d) : d[i][1] = key

DictGet(d, key) == d[DictIndex(d, key)][2]

\* d[key] = v : an existing key keeps its position
DictSet(d, key, v) ==
    IF DictHas(d, key)
    THEN [d EXCEPT ![DictIndex(d, key)] = <<key, v>>]
    ELSE Append(d, <<key, v>>)

DictKeys(d) == [i \in 1..Len(d) |-> d[i][1]]

DictValues(d) == [i \in 1..Len(d) |-> d[i][2]]

SeqToSet(s) == {s[i] : i \in 1..Len(s)}

-----------------------------------------------------------------------------
(* The parsed document (graphql-core AST).                                  *)
(* A selection is a record                                                  *)
(*   [k, name, alias, args, ss, loc]                                        *)
(* k \in {"field", "spread", "inline"}; alias = "" when none; for "inline"  *)
(* name is the type condition, for "spread" the fragment's name; ss is the  *)
(* index of its SelectionSetNode in the document's cell store (0 = None);   *)
(* loc is the source location, which graphql-core's Node equality and hash  *)
(* include.  SelectionSetNode objects are shared by reference, so they live *)
(* in a store: cells[i] is the selections tuple of selection set i.         *)

NoAlias == ""

Sel(k, name, alias, args, ss, loc) ==
    [k |-> k, name |-> name, alias |-> alias, args |-> args, ss |-> ss, loc |-> loc]

Arg(name, value) == [name |-> name, value |-> value]

\* an argument value: a graphql.StringValueNode, or a graphql.VariableNode
Lit(s) == [t |-> "lit", s |-> s]
VarRef(s) == [t |-> "var", s |-> s]

\* a Python str
VStr(s) == [t |-> "str", s |-> s]

\* a Python int
VInt(n) == [t |-> "int", n |-> n]

-----------------------------------------------------------------------------
(* The schema (SchemaDescriptor): an input of the pipeline.                 *)
(* Query.user -> User, Query.users -> [User], Query.account -> User|Admin,  *)
(* Query.ping -> String!; User and Admin are object types; User.account is  *)
(* the union User|Admin again, User.friends is [User].                      *)

Decl(type, nonnull) == [type |-> type, nonnull |-> nonnull]

NoType == ""

SchemaFields(ty) ==
    CASE ty = "Query" ->
           << <<"user", Decl("User", FALSE)>>, <<"users", Decl("User", FALSE)>>,
              <<"account", Decl("Account", FALSE)>>, <<"ping", Decl("String", TRUE)>> >>
      [] ty = "Mutation" ->
           << <<"touch", Decl("String", FALSE)>> >>
      [] ty = "User" ->
           << <<"id", Decl("String", TRUE)>>, <<"firstName", Decl("String", FALSE)>>,
              <<"nick", Decl("String", FALSE)>>, <<"tag", Decl("String", TRUE)>>,
              <<"best", Decl("User", FALSE)>>, <<"boss", Decl("User", TRUE)>>,
              <<"account", Decl("Account", FALSE)>>, <<"friends", Decl("User", FALSE)>> >>
      [] ty = "Admin" ->
           << <<"id", Decl("String", TRUE)>>, <<"level", Decl("String", FALSE)>>,
              <<"tag", Decl("String", TRUE)>> >>
      [] OTHER -> <<>>

UnionTypes(ty) == IF ty = "Account" THEN <<"User", "Admin">> ELSE <<>>

\* schema.query_type / schema.mutation_type
OperationRootType(operation) == IF operation = "mutation" THEN "Mutation" ELSE "Query"

-----------------------------------------------------------------------------
(* Translator (gql_ast/translator.py)                                       *)

UseCamelCase == TRUE

\* graphql.pyutils.camel_to_snake on the names of the schema
camel_to_snake(s) == IF s = "firstName" THEN "first_name" ELSE s

to_snake(s) == IF UseCamelCase THEN camel_to_snake(s) ELSE s

\* the nodes of gql_ast/models.py
FieldNode(name, alias, display_name, arguments, children, leaf) ==
    [k |-> "field", name |-> name, alias |-> alias, display_name |-> display_name,
     arguments |-> arguments, children |-> children, leaf |-> leaf]

InlineFragmentNode(type_condition, children, leaf) ==
    [k |-> "inline", name |-> type_condition, alias |-> NoAlias,
     display_name |-> type_condition, arguments |-> <<>>, children |-> children,
     leaf |-> leaf]

OperationNode(name, type, children) ==
    [k |-> "op", name |-> name, type |-> type, children |-> children]

Argument(name, display_name, value) ==
    [name |-> name, display_name |-> display_name, value |-> value]

\* Translator.parse_val: a variable stays a VariableNode, a string literal
\* becomes its value
parse_val(val) == IF val.t = "var" THEN val ELSE VStr(val.s)

\* the key of has_seen: a field's alias or name; an inline fragment's
\* type_condition.name, a NameNode, equal only to a NameNode at the same location
sel_key(sel) ==
    IF sel.k = "field" THEN (IF sel.alias # NoAlias THEN sel.alias ELSE sel.name)
    ELSE "@" \o sel.loc

\* Translator.combine_sels: the copy shares a's SelectionSetNode, which is
\* assigned to (a fresh one when a has none)
combine_sels(a, b, cells) ==
    LET arguments == IF a.k = "field" THEN a.args \o b.args ELSE a.args
        selections == (IF a.ss # 0 THEN cells[a.ss] ELSE <<>>)
                          \o (IF b.ss # 0 THEN cells[b.ss] ELSE <<>>)
    IN  [node  |-> [a EXCEPT !.args = arguments,
                             !.ss = IF a.ss = 0 THEN Len(cells) + 1 ELSE a.ss],
         cells |-> IF a.ss = 0 THEN Append(cells, selections)
                   ELSE [cells EXCEPT ![a.ss] = selections]]

Raised(cells) == [raised |-> TRUE, nodes |-> <<>>, cells |-> cells]

\* children_from_node, first loop: flatten the spreads and combine by key
RECURSIVE flatten_and_combine(_, _, _, _)
flatten_and_combine(frags, selection_q, has_seen, cells) ==
    IF selection_q = <<>>
    THEN [raised |-> FALSE, nodes |-> DictValues(has_seen), cells |-> cells]
    ELSE LET sel == Head(selection_q) IN
         IF sel.k = "spread"
         THEN IF ~DictHas(frags, sel.name) THEN Raised(cells)
              ELSE flatten_and_combine(
                       frags, Tail(selection_q) \o cells[DictGet(frags, sel.name)],
                       has_seen, cells)
         ELSE LET key == sel_key(sel) IN
              IF DictHas(has_seen, key)
              THEN LET c == combine_sels(DictGet(has_seen, key), sel, cells) IN
                   flatten_and_combine(frags, Tail(selection_q),
                                       DictSet(has_seen, key, c.node), c.cells)
              ELSE flatten_and_combine(frags, Tail(selection_q),
                                       DictSet(has_seen, key, sel), cells)

\* Translator.get_root_type with a type condition, on an unwrapped type
get_root_type(type_, type_condition) ==
    IF UnionTypes(type_) # <<>>
    THEN IF type_condition \in SeqToSet(UnionTypes(type_)) THEN type_condition
         ELSE "!raise"
    ELSE type_

RECURSIVE children_from_node(_, _, _, _), build_children(_, _, _, _, _),
          from_node(_, _, _, _), from_spread(_, _, _, _, _)

\* Translator.from_node; gql_field is the (unwrapped) type of the field,
\* NoType for __typename
from_node(frags, gql_field, node, cells) ==
    IF node.k = "spread"
    THEN IF ~DictHas(frags, node.name) THEN Raised(cells)
         ELSE from_spread(frags, gql_field, cells[DictGet(frags, node.name)],
                          cells, <<>>)
    ELSE LET c == children_from_node(frags, gql_field, node, cells) IN
         IF c.raised THEN Raised(c.cells)
         ELSE IF node.k = "inline"
         THEN [raised |-> FALSE, cells |-> c.cells,
               nodes |-> <<InlineFragmentNode(node.name, c.nodes, node.ss = 0)>>]
         ELSE [raised |-> FALSE, cells |-> c.cells,
               nodes |-> <<FieldNode(
                   to_snake(node.name),
                   node.alias,
                   node.name,
                   [i \in 1..Len(node.args) |->
                       Argument(to_snake(node.args[i].name), node.args[i].name,
                                parse_val(node.args[i].value))],
                   c.nodes,
                   node.ss = 0)>>]

\* from_node on a FragmentSpreadNode: one from_node per selection of the fragment
from_spread(frags, gql_field, sels, cells, acc) ==
    IF sels = <<>> THEN [raised |-> FALSE, nodes |-> acc, cells |-> cells]
    ELSE LET r == from_node(frags, gql_field, Head(sels), cells) IN
         IF r.raised THEN Raised(r.cells)
         ELSE from_spread(frags, gql_field, Tail(sels), r.cells, acc \o r.nodes)

\* children_from_node, second loop: one child per value of has_seen
build_children(frags, root_field, sels, cells, children) ==
    IF sels = <<>> THEN [raised |-> FALSE, nodes |-> children, cells |-> cells]
    ELSE LET sel == Head(sels)
             gql_field ==
                 IF sel.k = "inline" THEN get_root_type(root_field, sel.name)
                 ELSE IF sel.name = "__typename" THEN NoType
                 ELSE IF DictHas(SchemaFields(root_field), sel.name)
                      THEN DictGet(SchemaFields(root_field), sel.name).type
                      ELSE "!raise"
         IN  IF gql_field = "!raise" THEN Raised(cells)
             ELSE LET r == from_node(frags, gql_field, sel, cells) IN
                  IF r.raised THEN Raised(r.cells)
                  ELSE build_children(frags, root_field, Tail(sels), r.cells,
                                      children \o r.nodes)

\* Translator.children_from_node
children_from_node(frags, gql_field, node, cells) ==
    IF node.ss = 0 THEN [raised |-> FALSE, nodes |-> <<>>, cells |-> cells]
    ELSE LET f == flatten_and_combine(frags, cells[node.ss], <<>>, cells) IN
         IF f.raised THEN Raised(f.cells)
         ELSE build_children(frags, gql_field, f.nodes, f.cells, <<>>)

\* Translator.from_operation_node: the loop over the operation's own selections
RECURSIVE from_operation_sels(_, _, _, _, _)
from_operation_sels(frags, operation, sels, cells, children) ==
    IF sels = <<>> THEN [raised |-> FALSE, nodes |-> children, cells |-> cells]
    ELSE LET sel == Head(sels)
             fields == SchemaFields(OperationRootType(operation))
         IN  \* gql_field.fields[sel.name.value]: an inline fragment has no name
             IF sel.k = "inline" \/ ~DictHas(fields, sel.name) THEN Raised(cells)
             ELSE LET r == from_node(frags, DictGet(fields, sel.name).type, sel, cells)
                  IN  IF r.raised THEN Raised(r.cells)
                      ELSE from_operation_sels(frags, operation, Tail(sels), r.cells,
                                               children \o r.nodes)

\* Translator.translate on a document [ops, frags, cells]: ops is the sequence
\* of operation definitions [operation, name, ss], frags the fragment
\* definitions as a dict name -> selection set.  Queries come first.
RECURSIVE translate_ops(_, _, _, _)
translate_ops(frags, ops, cells, op_nodes) ==
    IF ops = <<>> THEN [raised |-> FALSE, nodes |-> op_nodes, cells |-> cells]
    ELSE LET node == Head(ops)
             r == from_operation_sels(frags, node.operation, cells[node.ss], cells, <<>>)
         IN  IF r.raised THEN Raised(r.cells)
             ELSE translate_ops(frags, Tail(ops), r.cells,
                      Append(op_nodes, OperationNode(node.name, node.operation, r.nodes)))

translate(document) ==
    translate_ops(
        document.frags,
        SelectSeq(document.ops, LAMBDA d : d.operation = "query")
            \o SelectSeq(document.ops, LAMBDA d : d.operation = "mutation"),
        document.cells, <<>>)

-----------------------------------------------------------------------------
(* graphql.parse: query text -> document.  A text is written here as its    *)
(* nested selections; parsing builds one SelectionSetNode per selection set *)
(* and gives every node its location.                                       *)

\* a selection as written: sels is its selection set, hasSel whether it has one
Src(k, name, alias, args, sels, hasSel) ==
    [k |-> k, name |-> name, alias |-> alias, args |-> args, sels |-> sels,
     hasSel |-> hasSel]

Leaf(name) == Src("field", name, NoAlias, <<>>, <<>>, FALSE)
Aliased(alias, name) == Src("field", name, alias, <<>>, <<>>, FALSE)
Call(alias, name, args) == Src("field", name, alias, args, <<>>, FALSE)
Obj(name, sels) == Src("field", name, NoAlias, <<>>, sels, TRUE)
ObjAs(alias, name, args, sels) == Src("field", name, alias, args, sels, TRUE)
Spread(name) == Src("spread", name, NoAlias, <<>>, <<>>, FALSE)
Inline(type_condition, sels) == Src("inline", type_condition, NoAlias, <<>>, sels, TRUE)

RECURSIVE parse_selections(_, _, _, _)
parse_selections(srcs, cells, loc, acc) ==
    IF srcs = <<>> THEN [sels |-> acc, cells |-> cells]
    ELSE LET n == Head(srcs)
             myloc == loc \o "." \o ToString(Len(acc) + 1)
             inner == parse_selections(n.sels, cells, myloc, <<>>)
             sub == IF n.hasSel
                    THEN [ss |-> Len(inner.cells) + 1, cells |-> Append(inner.cells, inner.sels)]
                    ELSE [ss |-> 0, cells |-> cells]
         IN  parse_selections(Tail(srcs), sub.cells, loc,
                 Append(acc, Sel(n.k, n.name, n.alias, n.args, sub.ss, myloc)))

RECURSIVE parse_definitions(_, _, _)
\* text = [ops |-> <<[operation, name, sels]>>, frags |-> << <<name, sels>> >>]
parse_definitions(defs, cells, acc) ==
    IF defs = <<>> THEN [out |-> acc, cells |-> cells]
    ELSE LET r == parse_selections(Head(defs).sels, cells,
                                   Head(defs).name \o ToString(Len(acc) + 1), <<>>)
         IN  parse_definitions(Tail(defs), Append(r.cells, r.sels),
                 Append(acc, [Head(defs) EXCEPT !.sels = Len(r.cells) + 1]))

parse(text) ==
    LET f == parse_definitions(
                 [i \in 1..Len(text.frags) |->
                     [name |-> text.frags[i][1], sels |-> text.frags[i][2]]],
                 <<>>, <<>>)
        o == parse_definitions(text.ops, f.cells, <<>>)
    IN  [ops   |-> [i \in 1..Len(o.out) |->
                       [operation |-> o.out[i].operation, name |-> o.out[i].name,
                        ss |-> o.out[i].sels]],
         frags |-> [i \in 1..Len(f.out) |-> <<f.out[i].name, f.out[i].sels>>],
         cells |-> o.cells]

Query(sels) == [operation |-> "query", name |-> "", sels |-> sels]
Mutation(sels) == [operation |-> "mutation", name |-> "", sels |-> sels]
\* query Q { ... }, mutation M { ... }
Named(name, op) == [op EXCEPT !.name = name]

-----------------------------------------------------------------------------
(* Values at run time: application objects (GQL models) and results.        *)

VNull == [t |-> "null"]
VList(l) == [t |-> "list", l |-> l]
\* a result dict, in key order
VMap(m) == [t |-> "map", m |-> m]
\* a GQL model instance: gql_type_name() and its model_fields with their values
VObj(type, fields) == [t |-> "obj", type |-> type, fields |-> fields]

\* Python truthiness of a returned value
Truthy(v) == ~(v = VNull \/ v = VStr("") \/ v = VList(<<>>))

\* exceptions: a GQLError raised by application code keeps the path it was
\* given (None by default); anything else is a plain Exception
NoExc == [k |-> "none"]
PlainExc(what) == [k |-> "Exception", what |-> what]
AppGQLError == [k |-> "GQLError", message |-> "app", path |-> <<"app">>]

\* an entry of Resolver.errors
GQLError(message, path) == [message |-> message, path |-> path]

\* BaseModel.model_dump(mode="json")
RECURSIVE model_dump(_)
model_dump(v) ==
    IF v.t = "obj"
    THEN VMap([i \in 1..Len(v.fields) |-> <<v.fields[i][1], model_dump(v.fields[i][2])>>])
    ELSE IF v.t = "list" THEN VList([i \in 1..Len(v.l) |-> model_dump(v.l[i])])
    ELSE v

\* the methods (function-backed fields) of each model class
ModelMethods(type) ==
    CASE type = "Query" -> {"user", "users", "account", "ping"}
      [] type = "Mutation" -> {"touch"}
      [] type = "User" -> {"nick", "tag"}
      [] type = "Admin" -> {"tag"}
      [] OTHER -> {}

\* build_is_not_nullable_map (execute/utils.py): type -> field -> non-null?
is_not_nullable_map(type_name, field_name) ==
    DictGet(SchemaFields(type_name), field_name).nonnull

\* parse_value (execute/utils.py) on one argument value; variables is the
\* request's variables dict, or NoVariables when the request gave None
NoVariables == [none |-> TRUE, d |-> <<>>]
VariablesDict(d) == [none |-> FALSE, d |-> d]

parse_value_raises(variables, v) ==
    v.t = "var" /\ (variables.none \/ ~DictHas(variables.d, v.s))

parse_value(variables, v) == IF v.t = "var" THEN DictGet(variables.d, v.s) ELSE v

\* the ints a str of the model may spell
MaxInt == 9

\* int(s) for a str of digits, -1 for any other str
IntOfStr(s) ==
    IF \E n \in 0..MaxInt : ToString(n) = s
    THEN CHOOSE n \in 0..MaxInt : ToString(n) = s
    ELSE -1

\* TypeAdapter(annotation).validate_python(val) raises ValidationError: the
\* annotations of the model are "str" and "int"; a str of digits is a valid
\* int, a VariableNode is neither
validate_python_raises(annotation, val) ==
    CASE annotation = "int" -> ~(val.t = "int" \/ (val.t = "str" /\ IntOfStr(val.s) >= 0))
      [] annotation = "str" -> val.t # "str"
      [] OTHER -> FALSE

\* what validate_python returns when it does not raise
validate_python(annotation, val) ==
    IF annotation = "int" /\ val.t = "str" THEN VInt(IntOfStr(val.s)) ELSE val

-----------------------------------------------------------------------------
(* Resolver.resolve_node, up to its gather (resolver.py 148-195)            *)

\* a variant of line 162 that takes every type condition for a match
type_condition_any(child, model) == TRUE

\* line 162: child.type_condition == model.gql_type_name()
type_condition_matches(child, model) == child.name = model.type

DispatchStart ==
    [raised |-> FALSE, final_d |-> <<>>, fields_to_include |-> <<>>,
     name_to_return_to_display_name |-> <<>>, proms_map |-> <<>>]

RECURSIVE dispatch(_, _, _, _, _)
dispatch(children_q, model, path, variables, acc) ==
    IF children_q = <<>> THEN acc
    ELSE LET child == Head(children_q) IN
    IF child.k = "inline"
    THEN dispatch((IF type_condition_matches(child, model) THEN child.children ELSE <<>>)
                      \o Tail(children_q), model, path, variables, acc)
    ELSE
    LET name_to_return == IF child.alias # NoAlias THEN child.alias ELSE child.display_name
        new_path == Append(path, name_to_return)
        acc1 == [acc EXCEPT !.name_to_return_to_display_name =
                                DictSet(@, name_to_return, child.display_name)]
    IN  IF child.name = "__typename"
        THEN dispatch(Tail(children_q), model, path, variables,
                 [acc1 EXCEPT !.final_d = DictSet(@, name_to_return, VStr(model.type))])
        ELSE IF ~DictHas(model.fields, child.name)
        THEN \* this must be a function
             IF \/ \E i \in 1..Len(child.arguments) :
                       parse_value_raises(variables, child.arguments[i].value)
                \/ child.name \notin ModelMethods(model.type)
             THEN [acc1 EXCEPT !.raised = TRUE]
             ELSE dispatch(Tail(children_q), model, path, variables,
                      [acc1 EXCEPT !.proms_map = DictSet(@, name_to_return,
                          [kind |-> "call", node |-> child, new_path |-> new_path,
                           kwargs |-> [i \in 1..Len(child.arguments) |->
                               <<child.arguments[i].name,
                                 parse_value(variables, child.arguments[i].value)>>]])])
        ELSE IF child.children = <<>>
        THEN \* this is a property
             dispatch(Tail(children_q), model, path, variables,
                 [acc1 EXCEPT !.fields_to_include = DictSet(@, child.name, name_to_return)])
        ELSE \* this is either a BaseModel or a list of BaseModel
             dispatch(Tail(children_q), model, path, variables,
                 [acc1 EXCEPT !.proms_map = DictSet(@, name_to_return,
                     [kind |-> "nodes", node |-> child, new_path |-> new_path,
                      model_s |-> DictGet(model.fields, child.name)])])

-----------------------------------------------------------------------------
(* Resolver.resolve_node, after its gather (resolver.py 199-251)            *)

\* a variant of lines 200-222 in which a failed awaitable's entry carries the
\* parent path, without the response key
RECURSIVE collect_vals_parent_path(_, _, _, _, _)
collect_vals_parent_path(names, vals, path, final_d, errs) ==
    IF names = <<>> THEN [final_d |-> final_d, errs |-> errs]
    ELSE LET name == Head(names)
             val == Head(vals)
         IN  IF val.exc # NoExc
             THEN collect_vals_parent_path(Tail(names), Tail(vals), path,
                      DictSet(final_d, name, VNull),
                      Append(errs,
                          IF val.exc.k = "GQLError"
                          THEN GQLError(val.exc.message, val.exc.path)
                          ELSE GQLError("Internal Server Error", path)))
             ELSE collect_vals_parent_path(Tail(names), Tail(vals), path,
                      DictSet(final_d, name, val.val), errs)

\* lines 200-222: vals[i] is the outcome [val, exc] of proms_map's i-th entry
RECURSIVE collect_vals(_, _, _, _, _)
collect_vals(names, vals, path, final_d, errs) ==
    IF names = <<>> THEN [final_d |-> final_d, errs |-> errs]
    ELSE LET name == Head(names)
             val == Head(vals)
         IN  IF val.exc # NoExc
             THEN collect_vals(Tail(names), Tail(vals), path,
                      DictSet(final_d, name, VNull),
                      Append(errs,
                          IF val.exc.k = "GQLError"
                          THEN GQLError(val.exc.message, val.exc.path)
                          ELSE GQLError("Internal Server Error", Append(path, name))))
             ELSE collect_vals(Tail(names), Tail(vals), path,
                      DictSet(final_d, name, val.val), errs)

\* lines 223-227
RECURSIVE include_fields(_, _, _)
include_fields(items, model_d, final_d) ==
    IF items = <<>> THEN final_d
    ELSE LET name == Head(items)[1]
             name_to_use == Head(items)[2]
             d1 == DictSet(final_d, name_to_use, DictGet(model_d.m, name))
         IN  include_fields(Tail(items), model_d,
                 IF name_to_use # name THEN DictSet(d1, name, DictGet(model_d.m, name))
                 ELSE d1)

Outcome(val, exc, errs) == [val |-> val, exc |-> exc, errs |-> errs]

\* a variant of lines 229-251 that checks only the objects below the top-level
\* fields
RECURSIVE null_check_and_order_below_top(_, _, _, _, _, _)
null_check_and_order_below_top(items, final_d, model, path, sorted_d, errs) ==
    IF items = <<>> THEN Outcome(VMap(sorted_d), NoExc, errs)
    ELSE LET name_to_return == Head(items)[1]
             name == Head(items)[2]
         IN  IF ~DictHas(final_d, name_to_return)
             THEN Outcome(VNull, PlainExc("KeyError"), errs)
             ELSE LET val == DictGet(final_d, name_to_return) IN
                  IF val = VNull /\ Len(path) > 1
                  THEN IF ~DictHas(SchemaFields(model.type), name)
                       THEN Outcome(VNull, PlainExc("KeyError"), errs)
                       ELSE IF is_not_nullable_map(model.type, name)
                       THEN Outcome(VNull, NoExc,
                                Append(errs, GQLError("Cannot return null for non-nullable field",
                                                      Append(path, name_to_return))))
                       ELSE null_check_and_order_below_top(Tail(items), final_d, model, path,
                                DictSet(sorted_d, name_to_return, val), errs)
                  ELSE null_check_and_order_below_top(Tail(items), final_d, model, path,
                           DictSet(sorted_d, name_to_return, val), errs)

\* lines 229-251: the null check and the ordering
RECURSIVE null_check_and_order(_, _, _, _, _, _)
null_check_and_order(items, final_d, model, path, sorted_d, errs) ==
    IF items = <<>> THEN Outcome(VMap(sorted_d), NoExc, errs)
    ELSE LET name_to_return == Head(items)[1]
             name == Head(items)[2]
         IN  IF ~DictHas(final_d, name_to_return)
             THEN Outcome(VNull, PlainExc("KeyError"), errs)
             ELSE LET val == DictGet(final_d, name_to_return) IN
                  IF val = VNull /\ path # <<>>
                  THEN IF ~DictHas(SchemaFields(model.type), name)
                       THEN Outcome(VNull, PlainExc("KeyError"), errs)
                       ELSE IF is_not_nullable_map(model.type, name)
                       THEN Outcome(VNull, NoExc,
                                Append(errs, GQLError("Cannot return null for non-nullable field",
                                                      Append(path, name_to_return))))
                       ELSE null_check_and_order(Tail(items), final_d, model, path,
                                DictSet(sorted_d, name_to_return, val), errs)
                  ELSE null_check_and_order(Tail(items), final_d, model, path,
                           DictSet(sorted_d, name_to_return, val), errs)

\* a variant of resolve_node's tail that returns the keys in the order final_d
\* received them (awaited fields first, then data attributes)
assemble_unsorted(d, vals, model, path, errs) ==
    LET c == collect_vals(DictKeys(d.proms_map), vals, path, d.final_d, errs)
        model_d == model_dump(model)
        final_d == include_fields(d.fields_to_include, model_d, c.final_d)
        present == SelectSeq(final_d,
                       LAMBDA x : DictHas(d.name_to_return_to_display_name, x[1]))
        missing == SelectSeq(d.name_to_return_to_display_name,
                       LAMBDA x : ~DictHas(final_d, x[1]))
        items == [i \in 1..Len(present) |->
                     <<present[i][1],
                       DictGet(d.name_to_return_to_display_name, present[i][1])>>]
    IN  null_check_and_order(items \o missing, final_d, model, path, <<>>, c.errs)

\* the part of resolve_node after the gather; d is what dispatch built
assemble(d, vals, model, path, errs) ==
    LET c == collect_vals(DictKeys(d.proms_map), vals, path, d.final_d, errs)
        model_d == model_dump(model)
        final_d == include_fields(d.fields_to_include, model_d, c.final_d)
    IN  null_check_and_order(d.name_to_return_to_display_name, final_d, model, path,
                             <<>>, c.errs)

-----------------------------------------------------------------------------
(* The application: root models and what the callables return.              *)

UserLeaf == VObj("User", << <<"id", VStr("2")>>, <<"first_name", VNull>>,
                            <<"best", VNull>>, <<"boss", VNull>> >>)
AdminObj == VObj("Admin", << <<"id", VStr("9")>>, <<"level", VStr("3")>> >>)
UserMid == VObj("User", << <<"id", VStr("3")>>, <<"first_name", VStr("Bo")>>,
                           <<"best", VNull>>, <<"boss", UserLeaf>> >>)
UserRoot == VObj("User", << <<"id", VStr("1")>>, <<"first_name", VStr("Ann")>>,
                            <<"best", UserLeaf>>, <<"boss", UserMid>>,
                            <<"account", AdminObj>> >>)

\* Executor.operation_type_to_model
operation_type_to_model(type) ==
    IF type = "mutation" THEN VObj("Mutation", <<>>) ELSE VObj("Query", <<>>)

MethodNames == {"user", "users", "account", "ping", "touch", "nick", "tag"}

\* what a callable returns when it returns normally
MethodValue(name) ==
    CASE name = "user" -> UserRoot
      [] name = "users" -> VList(<<UserRoot, UserLeaf>>)
      [] name = "account" -> AdminObj
      [] name = "ping" -> VStr("pong")
      [] name = "touch" -> VStr("ok")
      [] name = "nick" -> VStr("nk")
      [] name = "tag" -> VStr("tg")

\* env.beh[name] \in {"ok", "null", "raise", "gqlerror"}: the callable returns
\* its value, returns None, raises an Exception, raises a GQLError
MethodOutcome(env, name) ==
    CASE env.beh[name] = "ok" -> [val |-> MethodValue(name), exc |-> NoExc]
      [] env.beh[name] = "null" -> [val |-> VNull, exc |-> NoExc]
      [] env.beh[name] = "raise" -> [val |-> VNull, exc |-> PlainExc("app")]
      [] env.beh[name] = "gqlerror" -> [val |-> VNull, exc |-> AppGQLError]

\* the annotations of the parameters of the callables: user(id: str),
\* nick(p: int); "" for a name that is no parameter
ParamAnnotation(method, name) ==
    CASE method = "user" /\ name = "id" -> "str"
      [] method = "nick" /\ name = "p" -> "int"
      [] OTHER -> ""

\* Resolver.build_kwargs raises: a truthy value given for a parameter is not
\* valid for the parameter's annotation
build_kwargs_raises(method, kwargs) ==
    \E i \in 1..Len(kwargs) :
        /\ ParamAnnotation(method, kwargs[i][1]) # ""
        /\ Truthy(kwargs[i][2])
        /\ validate_python_raises(ParamAnnotation(method, kwargs[i][1]), kwargs[i][2])

\* inject_dependencies_and_execute up to the callable's return: build_kwargs,
\* then the call (the callables of the model do not look at their arguments)
CallOutcome(env, method, kwargs) ==
    IF build_kwargs_raises(method, kwargs)
    THEN [val |-> VNull, exc |-> PlainExc("ValidationError")]
    ELSE MethodOutcome(env, method)

-----------------------------------------------------------------------------
(* The coroutines of one request.  A unit is one awaitable handed to        *)
(* asyncio.gather: a root resolve_node, an entry of a proms_map, or the     *)
(* resolve_node of one element of a list.  Its id is its place in the call  *)
(* tree; phase "call" awaits the callable, "frame" the gather of            *)
(* resolve_node, "list" the gather of resolve_node_s.                       *)

Unit(phase, node, model, path, kwargs) ==
    [phase |-> phase, node |-> node, model |-> model, path |-> path,
     kwargs |-> kwargs, val |-> VNull, exc |-> NoExc]

Finished(u, val, exc) == [u EXCEPT !.phase = "done", !.val = val, !.exc = exc]

NoUnits == [x \in {} |-> NotRun]

ElementKey(i) == "#" \o ToString(i)

RECURSIVE SpawnFrame(_, _, _, _, _), SpawnTasks(_, _, _, _, _),
          SpawnNodes(_, _, _, _, _), SpawnElements(_, _, _, _, _, _)

\* resolve_node(node, model, path) starts running as unit id
SpawnFrame(id, node, model, path, variables) ==
    IF model = VNull
    THEN id :> Finished(Unit("frame", node, model, path, <<>>), VNull, NoExc)
    ELSE IF model.t # "obj"
    THEN id :> Finished(Unit("frame", node, model, path, <<>>), VNull,
                        PlainExc("must be an instance of GQL"))
    ELSE LET d == dispatch(node.children, model, path, variables, DispatchStart) IN
         IF d.raised
         THEN id :> Finished(Unit("frame", node, model, path, <<>>), VNull,
                             PlainExc("dispatch"))
         ELSE (id :> Unit("frame", node, model, path, <<>>))
                  @@ SpawnTasks(id, d.proms_map, model, variables, 1)

\* the awaitables of proms_map start
SpawnTasks(id, proms_map, model, variables, i) ==
    IF i > Len(proms_map) THEN NoUnits
    ELSE LET p == proms_map[i][2]
             tid == Append(id, proms_map[i][1])
         IN  (IF p.kind = "call"
              THEN tid :> Unit("call", p.node, model, p.new_path, p.kwargs)
              ELSE SpawnNodes(tid, p.node, p.model_s, p.new_path, variables))
                 @@ SpawnTasks(id, proms_map, model, variables, i + 1)

\* Resolver.resolve_node_s
SpawnNodes(id, node, model_s, path, variables) ==
    IF model_s.t = "list"
    THEN (id :> Unit("list", node, model_s, path, <<>>))
             @@ SpawnElements(id, node, model_s.l, path, variables, 1)
    ELSE SpawnFrame(id, node, model_s, path, variables)

SpawnElements(id, node, models, path, variables, i) ==
    IF i > Len(models) THEN NoUnits
    ELSE SpawnFrame(Append(id, ElementKey(i)), node, models[i], path, variables)
             @@ SpawnElements(id, node, models, path, variables, i + 1)

\* the units a frame's gather waits for, in proms_map order
FrameDispatch(u) == dispatch(u.node.children, u.model, u.path, rEnv.variables, DispatchStart)

FrameTasks(id) ==
    LET keys == DictKeys(FrameDispatch(units[id]).proms_map)
    IN  [i \in 1..Len(keys) |-> Append(id, keys[i])]

ListElements(id) == [i \in 1..Len(units[id].model.l) |-> Append(id, ElementKey(i))]

AllDone(ids) == \A i \in 1..Len(ids) : units[ids[i]].phase = "done"

-----------------------------------------------------------------------------
(* SpecResolve: one validated, translated request being resolved            *)

translateVars == <<tDoc, tOut>>
resolveVars == <<rDoc, rEnv, units, errors, rResult>>
execVars == <<cache, heap, reqs, probe>>
buildVars == <<qbReq, qbs, qbOut>>

TranslateIdle == tDoc = NotRun /\ tOut = NotRun
ResolveIdle ==
    /\ rDoc = NotRun /\ rEnv = NotRun /\ units = NoUnits /\ errors = <<>>
    /\ rResult = NotRun
ExecIdle == cache = <<>> /\ heap = <<>> /\ reqs = <<>> /\ probe = NotRun
BuildIdle == qbReq = NotRun /\ qbs = <<>> /\ qbOut = NotRun

RootId(i) == <<"op" \o ToString(i)>>

RECURSIVE SpawnRoots(_, _, _)
SpawnRoots(root_nodes, variables, i) ==
    IF i > Len(root_nodes) THEN NoUnits
    ELSE SpawnFrame(RootId(i), root_nodes[i], operation_type_to_model(root_nodes[i].type),
                    <<>>, variables)
             @@ SpawnRoots(root_nodes, variables, i + 1)

\* Resolver.resolve_root_nodes up to its gather
ResolveRootNodes ==
    /\ units = NoUnits
    /\ rResult = NotRun
    /\ units' = SpawnRoots(rDoc.root_nodes, rEnv.variables, 1)
    /\ UNCHANGED <<rDoc, rEnv, errors, rResult, translateVars, execVars, buildVars>>

\* inject_dependencies_and_execute: the awaited callable completes
CallReturns(id) ==
    /\ units[id].phase = "call"
    /\ LET u == units[id]
           r == CallOutcome(rEnv, u.node.name, u.kwargs)
       IN  units' =
               IF r.exc = NoExc /\ Truthy(r.val) /\ u.node.children # <<>>
               THEN SpawnNodes(id, u.node, r.val, u.path, rEnv.variables) @@ units
               ELSE [units EXCEPT ![id] = Finished(u, r.val, r.exc)]
    /\ UNCHANGED <<rDoc, rEnv, errors, rResult, translateVars, execVars, buildVars>>

\* a gather that resumes resolve_node as soon as one awaitable has raised
Join_eager(id) ==
    /\ units[id].phase = "frame"
    /\ LET u == units[id]
           tasks == FrameTasks(id)
           vals == [i \in 1..Len(tasks) |-> units[tasks[i]]]
           r == assemble(FrameDispatch(u), vals, u.model, u.path, errors)
       IN  /\ \/ AllDone(tasks)
              \/ \E i \in 1..Len(tasks) : vals[i].phase = "done" /\ vals[i].exc # NoExc
           /\ units' = [units EXCEPT ![id] = Finished(u, r.val, r.exc)]
           /\ errors' = r.errs
    /\ UNCHANGED <<rDoc, rEnv, rResult, translateVars, execVars, buildVars>>

\* resolve_node resumes after its gather: every awaitable of proms_map is done
Join(id) ==
    /\ units[id].phase = "frame"
    /\ AllDone(FrameTasks(id))
    /\ LET u == units[id]
           tasks == FrameTasks(id)
           vals == [i \in 1..Len(tasks) |-> units[tasks[i]]]
           r == assemble(FrameDispatch(u), vals, u.model, u.path, errors)
       IN  /\ units' = [units EXCEPT ![id] = Finished(u, r.val, r.exc)]
           /\ errors' = r.errs
    /\ UNCHANGED <<rDoc, rEnv, rResult, translateVars, execVars, buildVars>>

\* resolve_node_s resumes after its gather, which has no return_exceptions:
\* with every element done, or as soon as one element has raised
ListJoin(id) ==
    /\ units[id].phase = "list"
    /\ LET u == units[id]
           elems == ListElements(id)
           failed == {i \in 1..Len(elems) :
                         units[elems[i]].phase = "done" /\ units[elems[i]].exc # NoExc}
       IN  \/ /\ failed = {}
              /\ AllDone(elems)
              /\ units' = [units EXCEPT ![id] =
                     Finished(u, VList([i \in 1..Len(elems) |-> units[elems[i]].val]), NoExc)]
           \/ \E i \in failed :
                 units' = [units EXCEPT ![id] = Finished(u, VNull, units[elems[i]].exc)]
    /\ UNCHANGED <<rDoc, rEnv, errors, rResult, translateVars, execVars, buildVars>>

RECURSIVE dict_update(_, _)
\* dict.update
dict_update(d, other) ==
    IF other = <<>> THEN d
    ELSE dict_update(DictSet(d, Head(other)[1], Head(other)[2]), Tail(other))

\* a merge that keeps the keys of the first operation only
merge_roots_first(ds, final_d) ==
    IF ds = <<>> THEN final_d ELSE dict_update(final_d, Head(ds).m)

RECURSIVE merge_roots(_, _)
merge_roots(ds, final_d) ==
    IF ds = <<>> THEN final_d ELSE merge_roots(Tail(ds), dict_update(final_d, Head(ds).m))

RootIds == [i \in 1..Len(rDoc.root_nodes) |-> RootId(i)]

Result(data, errs) == [k |-> "result", data |-> data, errors |-> errs]
ExecuteRaised == [k |-> "raised"]

\* resolve_root_nodes resumes after its gather (no return_exceptions) and
\* Executor.execute returns the Result, or the exception passes through it
ReturnResult ==
    /\ units # NoUnits
    /\ rResult = NotRun
    /\ LET failed == {i \in 1..Len(RootIds) :
                         units[RootIds[i]].phase = "done" /\ units[RootIds[i]].exc # NoExc}
       IN  \/ /\ failed = {}
              /\ AllDone(RootIds)
              /\ rResult' = Result(
                     VMap(merge_roots([i \in 1..Len(RootIds) |-> units[RootIds[i]].val], <<>>)),
                     errors)
           \/ /\ failed # {}
              /\ rResult' = ExecuteRaised
    /\ UNCHANGED <<rDoc, rEnv, units, errors, translateVars, execVars, buildVars>>

-----------------------------------------------------------------------------
(* The requests SpecResolve starts from                                     *)

\* sequences over S of length 1..n
RECURSIVE SeqsUpTo(_, _)
SeqsUpTo(S, n) ==
    IF n = 0 THEN {<<>>}
    ELSE LET shorter == SeqsUpTo(S, n - 1)
         IN  shorter \cup {Append(q, x) : q \in shorter, x \in S}

\* the most selections written in one selection set
MaxSels == 2

\* selections on a User
UserSels ==
    { Leaf("id"), Leaf("firstName"), Leaf("nick"), Leaf("tag"),
      Aliased("a", "nick"), Aliased("a", "id"), Leaf("__typename"),
      Inline("User", <<Leaf("tag"), Leaf("firstName")>>),
      Obj("best", <<Leaf("firstName"), Leaf("id")>>) }

\* selections on the Account union, whose callable returns an Admin
AccountSels ==
    { Leaf("__typename"), Inline("User", <<Leaf("id"), Leaf("nick")>>),
      Inline("Admin", <<Leaf("level")>>), Inline("Admin", <<Leaf("id")>>),
      Inline("User", <<Leaf("tag")>>) }

Text(ops) == [ops |-> ops, frags |-> <<>>]

RTexts ==
    {Text(<<Query(<<Obj("user", q)>>)>>) : q \in SeqsUpTo(UserSels, MaxSels) \ {<<>>}}
    \cup {Text(<<Query(<<Obj("account", q)>>)>>) :
              q \in SeqsUpTo(AccountSels, MaxSels) \ {<<>>}}
    \cup { Text(<<Query(<<Obj("users", <<Leaf("id"), Leaf("nick")>>)>>)>>),
           Text(<<Query(<<Obj("users", <<Leaf("tag"), Leaf("firstName")>>)>>)>>),
           Text(<<Query(<<Leaf("ping"), Obj("user", <<Leaf("id")>>)>>)>>),
           Text(<<Query(<<Aliased("p", "ping"), Leaf("ping")>>),
                  Mutation(<<Leaf("touch")>>)>>),
           Text(<<Query(<<ObjAs("u", "user", <<Arg("id", VarRef("v"))>>, <<Leaf("id")>>),
                          Leaf("ping")>>)>>),
           Text(<<Query(<<Obj("user", <<Call(NoAlias, "nick", <<Arg("p", VarRef("v"))>>),
                                       Leaf("id")>>)>>)>>),
           Text(<<Query(<<Obj("user", <<Obj("boss", <<Leaf("tag")>>), Leaf("id")>>)>>)>>),
           Text(<<Query(<<Obj("user", <<Obj("boss", <<Obj("boss", <<Leaf("tag")>>)>>)>>)>>)>>),
           Text(<<Query(<<Obj("user", <<Obj("best", <<Leaf("tag")>>), Leaf("id")>>)>>)>>),
           Text(<<Query(<<Obj("users", <<Aliased("a", "id"), Aliased("b", "id"),
                                        Leaf("nick")>>)>>)>>),
           Text(<<Query(<<Obj("user", <<Aliased("id", "firstName"),
                                       Aliased("a", "id")>>)>>)>>),
           Text(<<Named("Q", Query(<<Leaf("ping")>>)),
                  Named("M", Mutation(<<Leaf("touch")>>))>>),
           Text(<<Named("Q", Query(<<Leaf("ping")>>)),
                  Named("R", Query(<<Obj("user", <<Leaf("id")>>)>>))>>) }

RECURSIVE Mentions(_, _)
\* the selections written select a field called name
Mentions(srcs, name) ==
    \E i \in 1..Len(srcs) :
        \/ srcs[i].k = "field" /\ srcs[i].name = name
        \/ Mentions(srcs[i].sels, name)

TextMentions(text, name) ==
    \E i \in 1..Len(text.ops) : Mentions(text.ops[i].sels, name)

Behaviours(name) ==
    CASE name = "nick" -> {"ok", "null", "raise", "gqlerror"}
      [] name \in {"tag", "user", "ping"} -> {"ok", "null", "raise"}
      [] OTHER -> {"ok"}

\* a callable the text does not select is left at "ok"
BehavioursIn(text, name) == IF TextMentions(text, name) THEN Behaviours(name) ELSE {"ok"}

\* the operation_name of the request: None, or the name of an operation of
\* a text with several
OperationNames(text) ==
    {VNull} \cup (IF Len(text.ops) > 1
                  THEN {VStr(text.ops[i].name) : i \in 1..Len(text.ops)} \ {VStr("")}
                  ELSE {})

\* the request's variables: None, or a dict with or without v
Variables == {NoVariables, VariablesDict(<<>>), VariablesDict(<< <<"v", VStr("x")>> >>),
              VariablesDict(<< <<"v", VStr("7")>> >>)}

RECURSIVE UsesVariable(_)
UsesVariable(srcs) ==
    \E i \in 1..Len(srcs) :
        \/ \E j \in 1..Len(srcs[i].args) : srcs[i].args[j].value.t = "var"
        \/ UsesVariable(srcs[i].sels)

InitResolve ==
    /\ \E text \in RTexts :
          /\ rDoc = [text |-> text, root_nodes |-> translate(parse(text)).nodes]
          /\ \E nick \in BehavioursIn(text, "nick"), tag \in BehavioursIn(text, "tag"),
                user \in BehavioursIn(text, "user"), ping \in BehavioursIn(text, "ping"),
                variables \in Variables, operation_name \in OperationNames(text) :
                /\ (\E i \in 1..Len(text.ops) : UsesVariable(text.ops[i].sels))
                       \/ variables = VariablesDict(<< <<"v", VStr("x")>> >>)
                /\ rEnv = [beh |-> [m \in MethodNames |->
                                       CASE m = "nick" -> nick [] m = "tag" -> tag
                                         [] m = "user" -> user [] m = "ping" -> ping
                                         [] OTHER -> "ok"],
                           variables |-> variables,
                           operation_name |-> operation_name]
    /\ units = NoUnits
    /\ errors = <<>>
    /\ rResult = NotRun
    /\ TranslateIdle
    /\ ExecIdle
    /\ BuildIdle

NextResolve ==
    \/ ResolveRootNodes
    \/ \E id \in DOMAIN units : CallReturns(id)
    \/ \E id \in DOMAIN units : Join(id)
    \/ \E id \in DOMAIN units : ListJoin(id)
    \/ ReturnResult

SpecResolve == InitResolve /\ [][NextResolve]_vars

-----------------------------------------------------------------------------
(* What a unit returns when it runs alone and to completion, with nothing   *)
(* else in flight: the reference the concurrent run is compared with.       *)

RECURSIVE AloneFrame(_, _, _, _), AloneNodes(_, _, _, _), AloneTasks(_, _, _, _)

AloneCall(node, path, kwargs, env) ==
    LET r == CallOutcome(env, node.name, kwargs) IN
    IF r.exc = NoExc /\ Truthy(r.val) /\ node.children # <<>>
    THEN AloneNodes(node, r.val, path, env)
    ELSE Outcome(r.val, r.exc, <<>>)

AloneTasks(proms_map, model, env, i) ==
    IF i > Len(proms_map) THEN <<>>
    ELSE LET p == proms_map[i][2] IN
         <<IF p.kind = "call" THEN AloneCall(p.node, p.new_path, p.kwargs, env)
           ELSE AloneNodes(p.node, p.model_s, p.new_path, env)>>
             \o AloneTasks(proms_map, model, env, i + 1)

AloneNodes(node, model_s, path, env) ==
    IF model_s.t = "list"
    THEN LET rs == [i \in 1..Len(model_s.l) |-> AloneFrame(node, model_s.l[i], path, env)]
         IN  IF \E i \in 1..Len(rs) : rs[i].exc # NoExc
             THEN Outcome(VNull, PlainExc("element"), <<>>)
             ELSE Outcome(VList([i \in 1..Len(rs) |-> rs[i].val]), NoExc, <<>>)
    ELSE AloneFrame(node, model_s, path, env)

AloneFrame(node, model, path, env) ==
    IF model = VNull THEN Outcome(VNull, NoExc, <<>>)
    ELSE IF model.t # "obj" THEN Outcome(VNull, PlainExc("must be an instance of GQL"), <<>>)
    ELSE LET d == dispatch(node.children, model, path, env.variables, DispatchStart) IN
         IF d.raised THEN Outcome(VNull, PlainExc("dispatch"), <<>>)
         ELSE assemble(d, AloneTasks(d.proms_map, model, env, 1), model, path, <<>>)

\* the frames of the request: the units that run resolve_node
FrameJoins(id) == units[id].phase = "frame" /\ units'[id].phase = "done"

\* the entries Join appended to Resolver.errors in this step
Appended == SubSeq(errors', Len(errors) + 1, Len(errors'))

\* the keys of frame id whose awaitable raised, in proms_map order
FailedKeys(id) ==
    LET keys == DictKeys(FrameDispatch(units[id]).proms_map)
        tasks == FrameTasks(id)
    IN  SelectSeq([i \in 1..Len(keys) |-> <<keys[i], units[tasks[i]].exc>>],
                  LAMBDA x : x[2] # NoExc)

\* what the i-th awaitable of frame id returns when run alone
AloneTask(id, i) ==
    AloneTasks(FrameDispatch(units[id]).proms_map, units[id].model, rEnv, 1)[i]

\* the entry resolve_node appends for a failed key x = <<key, exception>>
ErrorEntry(x, path) ==
    IF x[2].k = "GQLError" THEN GQLError(x[2].message, x[2].path)
    ELSE GQLError("Internal Server Error", Append(path, x[1]))

NullabilityMessage == "Cannot return null for non-nullable field"

\* the keys of frame id whose callable itself raised an Exception
RaisedCalls(id) ==
    SelectSeq(FailedKeys(id), LAMBDA x : x[2] = PlainExc("app"))

-----------------------------------------------------------------------------
(* C1: fan-out isolation in Resolver.resolve_node                           *)

\* C1 as stated: whenever resolve_node resumes from its gather and the
\* callable of exactly one of its fields raised (an Exception that carries
\* no path of its own), the object resolves to a map holding null under the
\* failing key and every other awaited key's own value, and exactly one
\* entry is appended to Resolver.errors, whose path is the parent path
\* followed by the failing response key.
C1_IsolationAsStated ==
    [][\A id \in DOMAIN units :
          (FrameJoins(id) /\ Len(RaisedCalls(id)) = 1 /\ Len(FailedKeys(id)) = 1)
          => LET key == RaisedCalls(id)[1][1]
                 keys == DictKeys(FrameDispatch(units[id]).proms_map)
                 tasks == FrameTasks(id)
                 r == units'[id]
             IN  /\ r.exc = NoExc
                 /\ r.val.t = "map"
                 /\ DictGet(r.val.m, key) = VNull
                 /\ \A i \in 1..Len(keys) :
                       keys[i] # key => DictGet(r.val.m, keys[i]) = units[tasks[i]].val
                 /\ Len(Appended) = 1
                 /\ Appended[1].path = Append(units[id].path, key)]_vars

\* C1 amended: whenever resolve_node resumes from its gather, (1) every
\* awaited field has the value, and has failed or not, exactly as when it
\* runs alone, whatever the completion order; (2) one entry per failed field
\* is appended, in selection order: a GQLError as raised, with its own path,
\* anything else as "Internal Server Error" at parent path + response key;
\* after these comes at most one nullability entry; (3) the object is a map
\* unless resolve_node raised or a nullability entry was appended, and then
\* every failed key holds null and every other awaited key its own value.
C1_Isolation ==
    [][\A id \in DOMAIN units :
          FrameJoins(id)
          => LET keys == DictKeys(FrameDispatch(units[id]).proms_map)
                 tasks == FrameTasks(id)
                 failed == FailedKeys(id)
                 entries == [i \in 1..Len(failed) |-> ErrorEntry(failed[i], units[id].path)]
                 r == units'[id]
             IN  /\ \A i \in 1..Len(keys) :
                       /\ units[tasks[i]].val = AloneTask(id, i).val
                       /\ (units[tasks[i]].exc = NoExc) = (AloneTask(id, i).exc = NoExc)
                 /\ Len(Appended) \in {Len(entries), Len(entries) + 1}
                 /\ SubSeq(Appended, 1, Len(entries)) = entries
                 /\ Len(Appended) = Len(entries) + 1
                       => /\ Appended[Len(Appended)].message = NullabilityMessage
                          /\ r.val = VNull /\ r.exc = NoExc
                 /\ (r.exc = NoExc /\ Len(Appended) = Len(entries))
                       => /\ r.val.t = "map"
                          /\ \A i \in 1..Len(keys) :
                                DictGet(r.val.m, keys[i]) =
                                    IF units[tasks[i]].exc # NoExc THEN VNull
                                    ELSE units[tasks[i]].val]_vars

\* a resolved object where one callable raised, its key is null and a
\* sibling callable's value is kept
C1_Witness ==
    \E id \in DOMAIN units :
        /\ units[id].phase = "done" /\ units[id].val.t = "map"
        /\ Len(units[id].path) = 1
        /\ Append(id, "nick") \in DOMAIN units
        /\ Append(id, "tag") \in DOMAIN units
        /\ units[Append(id, "nick")].exc = PlainExc("app")
        /\ units[Append(id, "tag")].val = VStr("tg")
        /\ DictGet(units[id].val.m, "nick") = VNull
        /\ DictGet(units[id].val.m, "tag") = VStr("tg")
        /\ errors = <<GQLError("Internal Server Error", <<"user", "nick">>)>>

-----------------------------------------------------------------------------
(* C2: nullability collapse                                                 *)

\* final_d of frame id as its null check finds it (resolver.py line 229)
FinalD(id) ==
    LET u == units[id]
        d == FrameDispatch(u)
        tasks == FrameTasks(id)
        c == collect_vals(DictKeys(d.proms_map), [i \in 1..Len(tasks) |-> units[tasks[i]]],
                          u.path, d.final_d, <<>>)
    IN  include_fields(d.fields_to_include, model_dump(u.model), c.final_d)

\* the selected fields of frame id that are declared non-null and are null,
\* as <<response key, field name>> in selection order
NullViolations(id) ==
    LET final_d == FinalD(id)
        type == units[id].model.type
    IN  SelectSeq(FrameDispatch(units[id]).name_to_return_to_display_name,
                  LAMBDA x : /\ DictHas(final_d, x[1])
                             /\ DictGet(final_d, x[1]) = VNull
                             /\ DictHas(SchemaFields(type), x[2])
                             /\ is_not_nullable_map(type, x[2]))

NullabilityEntries(errs) == SelectSeq(errs, LAMBDA e : e.message = NullabilityMessage)

\* C2 as stated: for every object resolve_node returns, the root object
\* included: if a selected field declared non-null is null, the object is
\* null and exactly one nullability error is recorded, whose path is the full
\* path to that field; otherwise the object is a map, no nullability error is
\* recorded and every null field is kept as null.
C2_CollapseAsStated ==
    [][\A id \in DOMAIN units :
          (FrameJoins(id) /\ units'[id].exc = NoExc)
          => LET viol == NullViolations(id)
                 r == units'[id]
                 final_d == FinalD(id)
             IN  IF viol # <<>>
                 THEN /\ r.val = VNull
                      /\ NullabilityEntries(Appended) =
                             <<GQLError(NullabilityMessage,
                                        Append(units[id].path, viol[1][1]))>>
                 ELSE /\ r.val.t = "map"
                      /\ NullabilityEntries(Appended) = <<>>
                      /\ \A i \in 1..Len(r.val.m) :
                            r.val.m[i][2] = DictGet(final_d, r.val.m[i][1])]_vars

-----------------------------------------------------------------------------
(* C3: result ordering                                                      *)

\* the response keys a selection declares for an object of the given type,
\* in order of declaration: the children of a matching inline fragment stand
\* where the fragment stands, those of any other fragment are left out
RECURSIVE DeclaredKeys(_, _)
DeclaredKeys(children, type) ==
    IF children = <<>> THEN <<>>
    ELSE LET child == Head(children) IN
         (IF child.k = "inline"
          THEN IF child.name = type THEN DeclaredKeys(child.children, type) ELSE <<>>
          ELSE <<IF child.alias # NoAlias THEN child.alias ELSE child.display_name>>)
             \o DeclaredKeys(Tail(children), type)

\* s without the later occurrences of an element
RECURSIVE FirstOccurrences(_, _)
FirstOccurrences(s, seen) ==
    IF s = <<>> THEN <<>>
    ELSE IF Head(s) \in seen THEN FirstOccurrences(Tail(s), seen)
    ELSE <<Head(s)>> \o FirstOccurrences(Tail(s), seen \cup {Head(s)})

\* C3: every object resolve_node has resolved to a map has its keys in the
\* order the merged selection declares them, a matching inline fragment's
\* children at the fragment's position, whatever order the awaited fields
\* completed in and whatever kind of field each key is.
C3_KeyOrder ==
    \A id \in DOMAIN units :
        (units[id].phase = "done" /\ units[id].val.t = "map")
        => DictKeys(units[id].val.m) =
               FirstOccurrences(DeclaredKeys(units[id].node.children, units[id].model.type), {})

\* a request resolved in which a data attribute is declared before a matching
\* inline fragment holding a function field and another data attribute
C3_Witness ==
    \E id \in DOMAIN units :
        /\ units[id].phase = "done" /\ units[id].val.t = "map"
        /\ DictKeys(units[id].val.m) = <<"id", "tag", "firstName">>
        /\ rResult # NotRun

-----------------------------------------------------------------------------
(* C6: failures during resolution                                           *)

\* C6: the request, already parsed, validated and translated, ends with
\* Executor.execute returning a Result; nothing raised passes through it.
C6_ExecuteReturnsResult ==
    rResult # NotRun => rResult.k = "result"

-----------------------------------------------------------------------------
(* SpecTranslate: Translator(document, schema).translate() on one document  *)

\* selections on a User, with the fragment F on User { nick id }
TUserSels ==
    { Leaf("id"), Leaf("firstName"), Spread("F"),
      Obj("best", <<Leaf("id")>>), Obj("best", <<Leaf("firstName")>>),
      Inline("User", <<Leaf("id")>>) }

FragmentF == <<"F", <<Leaf("nick"), Leaf("id")>> >>

\* what may follow the first top-level field of the query
TSecondFields ==
    { <<>>, <<Leaf("ping")>>, <<Obj("user", <<Leaf("firstName")>>)>>,
      <<ObjAs("u", "user", <<Arg("id", Lit("7"))>>, <<Spread("F")>>)>>, <<Spread("G")>> }

FragmentG == <<"G", <<Obj("user", <<Leaf("tag")>>)>> >>

\* fragment H on User { best { id } }, fragment K on User { best { firstName } }
FragmentH == <<"H", <<Obj("best", <<Leaf("id")>>)>> >>
FragmentK == <<"K", <<Obj("best", <<Leaf("firstName")>>)>> >>

RECURSIVE Spreads(_, _)
\* the selections written spread the fragment called name
Spreads(srcs, name) ==
    \E i \in 1..Len(srcs) :
        \/ srcs[i].k = "spread" /\ srcs[i].name = name
        \/ Spreads(srcs[i].sels, name)

\* the document of the given top-level selections, with the fragments it uses
TText(sels) ==
    [ops |-> <<Query(sels)>>,
     frags |-> (IF Spreads(sels, "F") THEN <<FragmentF>> ELSE <<>>)
                   \o (IF Spreads(sels, "G") THEN <<FragmentG>> ELSE <<>>)
                   \o (IF Spreads(sels, "H") THEN <<FragmentH>> ELSE <<>>)
                   \o (IF Spreads(sels, "K") THEN <<FragmentK>> ELSE <<>>)]

\* H spread at two sites, at one of them next to K
TSpreadTexts ==
    { TText(<<Obj("user", <<Spread("H"), Spread("K")>>),
              ObjAs("u", "user", <<>>, <<Spread("H")>>)>>),
      TText(<<ObjAs("u", "user", <<>>, <<Spread("H")>>),
              Obj("user", <<Spread("H"), Spread("K")>>)>>),
      TText(<<Obj("user", <<Spread("H")>>), ObjAs("u", "user", <<>>, <<Spread("K")>>)>>) }

TTexts ==
    {TText(<<Obj("user", q)>> \o second) :
        q \in SeqsUpTo(TUserSels, MaxSels) \ {<<>>}, second \in TSecondFields}
    \cup TSpreadTexts

InitTranslate ==
    /\ \E text \in TTexts : tDoc = [text |-> text, document |-> parse(text)]
    /\ tOut = NotRun
    /\ ResolveIdle
    /\ ExecIdle
    /\ BuildIdle

\* Translator.translate: returns the OperationNodes, or raises; the
\* SelectionSetNodes of the document it assigned to are in the document
Translate ==
    /\ tOut = NotRun
    /\ \E r \in {translate(tDoc.document)} :
          /\ tOut' = [raised |-> r.raised, root_nodes |-> r.nodes]
          /\ tDoc' = [tDoc EXCEPT !.document.cells = r.cells]
    /\ UNCHANGED <<resolveVars, execVars, buildVars>>

NextTranslate == Translate

SpecTranslate == InitTranslate /\ [][NextTranslate]_vars

-----------------------------------------------------------------------------
(* C4: selection merging                                                    *)

ResponseKey(node) == IF node.alias # NoAlias THEN node.alias ELSE node.display_name

\* no node of the tree under node has two child FieldNodes with one response key
RECURSIVE MergedBelow(_)
MergedBelow(node) ==
    /\ \A i, j \in 1..Len(node.children) :
          (i # j /\ node.children[i].k = "field" /\ node.children[j].k = "field")
          => ResponseKey(node.children[i]) # ResponseKey(node.children[j])
    /\ \A i \in 1..Len(node.children) : MergedBelow(node.children[i])

\* C4: in the tree Translator.translate returns, at every level, the
\* operation's own selection set included, no node has two child FieldNodes
\* with the same response key.
C4_MergedEverywhere ==
    (tOut # NotRun /\ ~tOut.raised)
    => \A i \in 1..Len(tOut.root_nodes) : MergedBelow(tOut.root_nodes[i])

-----------------------------------------------------------------------------
(* CacheDict (execute/utils.py): an OrderedDict, oldest entry first         *)

\* the capacity cache_len of the CacheDict
CacheLen == 2

\* OrderedDict.move_to_end(key)
move_to_end(d, key) ==
    SelectSeq(d, LAMBDA x : x[1] # key) \o <<d[DictIndex(d, key)]>>

\* the while loop of __setitem__: delete next(iter(self)) while over capacity
RECURSIVE evict_oldest(_, _)
evict_oldest(d, cache_len) ==
    IF Len(d) > cache_len THEN evict_oldest(Tail(d), cache_len) ELSE d

\* a variant of __setitem__ that leaves an overwritten key where it was
CacheDict_setitem_in_place(d, key, value) ==
    evict_oldest(DictSet(d, key, value), CacheLen)

\* CacheDict.__setitem__
CacheDict_setitem(d, key, value) ==
    evict_oldest(move_to_end(DictSet(d, key, value), key), CacheLen)

\* CacheDict.__getitem__ on a key that is present: the dict afterwards
CacheDict_getitem(d, key) == move_to_end(d, key)

\* OrderedDict.get, which CacheDict inherits: the value or None, the dict as it was
NoValue == [k |-> "None"]
dict_get(d, key) == IF DictHas(d, key) THEN DictGet(d, key) ELSE NoValue

-----------------------------------------------------------------------------
(* SpecCache: reads and writes on one CacheDict                             *)

CacheKeys == {"q" \o ToString(i) : i \in 1..(CacheLen + 2)}
CacheValues == {"x", "y"}

\* the last operation: value is the value written, or what the read returned
Op(op, key, before, value) ==
    [k |-> "op", op |-> op, key |-> key, before |-> before, value |-> value]

InitCache ==
    /\ cache = <<>>
    /\ probe = NotRun
    /\ heap = <<>> /\ reqs = <<>>
    /\ TranslateIdle
    /\ ResolveIdle
    /\ BuildIdle

\* d[key] = value
SetItem(key, value) ==
    /\ cache' = CacheDict_setitem(cache, key, value)
    /\ probe' = Op("setitem", key, cache, value)
    /\ UNCHANGED <<heap, reqs, translateVars, resolveVars, buildVars>>

\* d[key]: raises KeyError when the key is absent
GetItem(key) ==
    /\ IF DictHas(cache, key)
       THEN /\ cache' = CacheDict_getitem(cache, key)
            /\ probe' = Op("getitem", key, cache, DictGet(cache, key))
       ELSE /\ cache' = cache
            /\ probe' = Op("getitem", key, cache, [k |-> "KeyError"])
    /\ UNCHANGED <<heap, reqs, translateVars, resolveVars, buildVars>>

\* d.get(key)
Get(key) ==
    /\ cache' = cache
    /\ probe' = Op("get", key, cache, dict_get(cache, key))
    /\ UNCHANGED <<heap, reqs, translateVars, resolveVars, buildVars>>

NextCache ==
    \/ \E key \in CacheKeys, value \in CacheValues : SetItem(key, value)
    \/ \E key \in CacheKeys : GetItem(key)
    \/ \E key \in CacheKeys : Get(key)

SpecCache == InitCache /\ [][NextCache]_vars

-----------------------------------------------------------------------------
(* C9: the capacity of the CacheDict                                        *)

Min(a, b) == IF a < b THEN a ELSE b

\* C9: after any sequence of reads and writes the CacheDict holds at most
\* CacheLen entries; a read removes and adds no entry; after a write the key
\* written is present with the value written, and the other entries are the
\* most recently used ones of before, in their order: what is gone was at
\* the least-recently-used end.
C9_Capacity ==
    /\ Len(cache) <= CacheLen
    /\ probe # NotRun =>
          IF probe.op = "setitem"
          THEN LET rest == SelectSeq(probe.before, LAMBDA x : x[1] # probe.key)
                   n == Min(Len(rest), CacheLen - 1)
               IN  /\ DictHas(cache, probe.key)
                   /\ DictGet(cache, probe.key) = probe.value
                   /\ SelectSeq(cache, LAMBDA x : x[1] # probe.key) =
                          SubSeq(rest, Len(rest) - n + 1, Len(rest))
                   /\ \A i \in 1..Len(cache) : cache[i][1] = probe.key => i = Len(cache)
          ELSE SeqToSet(cache) = SeqToSet(probe.before)

\* a write of a new key into a full CacheDict: its oldest entry is gone, the
\* next one is kept
C9_Witness ==
    /\ probe # NotRun
    /\ probe.op = "setitem"
    /\ Len(probe.before) = CacheLen
    /\ ~DictHas(probe.before, probe.key)
    /\ Len(cache) = CacheLen
    /\ ~DictHas(cache, probe.before[1][1])
    /\ DictHas(cache, probe.before[2][1])

-----------------------------------------------------------------------------
(* QueryBuilderConfig.from_info (query_builders/sql/config.py): what it     *)
(* does to the selection tree it is given.  The callable of Query.user      *)
(* builds its query from info.node with the config of table User, whose     *)
(* link account has one config per member of the union and whose link best  *)
(* has the config of User.                                                  *)

UnionLink(types) == [k |-> "union", types |-> types]
SingleLink(type) == [k |-> "single", type |-> type]

\* QueryBuilderConfig.links of the config of a table
ConfigLinks(table) ==
    IF table = "User"
    THEN << <<"account", UnionLink({"User", "Admin"})>>, <<"best", SingleLink("User")>>,
            <<"friends", SingleLink("User")>> >>
    ELSE <<>>

RECURSIVE from_info_children(_, _)

\* the branch of from_info for a child that is a link: the child afterwards
from_info_link(link, child) ==
    IF link.k = "union"
    THEN LET dangling_children == SelectSeq(child.children, LAMBDA c : c.k = "field")
         IN  [child EXCEPT !.children =
                 [j \in 1..Len(child.children) |->
                     LET child_child == child.children[j] IN
                     IF child_child.k = "inline"
                     THEN \* child_child.children.extend(dangling_children)
                          LET extended == child_child.children \o dangling_children
                          IN  [child_child EXCEPT !.children =
                                  from_info_children(child_child.name, extended)]
                     ELSE child_child]]
    ELSE [child EXCEPT !.children = from_info_children(link.type, child.children)]

\* from_info(info, node, cardinality) of the config of table: node.children
\* afterwards; the children of an inline fragment are handled as node's own
from_info_children(table, children) ==
    [i \in 1..Len(children) |->
        LET child == children[i] IN
        IF child.k = "inline"
        THEN [child EXCEPT !.children = from_info_children(table, child.children)]
        ELSE IF DictHas(ConfigLinks(table), child.name)
        THEN from_info_link(DictGet(ConfigLinks(table), child.name), child)
        ELSE child]

from_info(table, node) == [node EXCEPT !.children = from_info_children(table, node.children)]

\* the fields whose callable builds its query with from_info, and their table
QueryBuilt(name) == IF name = "user" THEN "User" ELSE NoType

-----------------------------------------------------------------------------
(* graphql.validation.validate as Executor.execute uses it: the errors of a *)
(* source text.  A source is its text, the variables its operation          *)
(* declares, and whether it is malformed (graphql.parse raises).            *)

Source(text, declared, malformed) ==
    [text |-> text, declared |-> declared, malformed |-> malformed]

RECURSIVE FieldsKnown(_, _)
\* every field selected exists on the type it is selected on
FieldsKnown(srcs, type) ==
    \A i \in 1..Len(srcs) :
        LET n == srcs[i] IN
        CASE n.k = "inline" -> FieldsKnown(n.sels, n.name)
          [] n.k = "spread" -> TRUE
          [] n.name = "__typename" -> TRUE
          [] OTHER -> /\ DictHas(SchemaFields(type), n.name)
                      /\ FieldsKnown(n.sels, DictGet(SchemaFields(type), n.name).type)

validate(source) ==
    LET ops == source.text.ops
        frags == source.text.frags
    IN  (IF \A i \in 1..Len(ops) :
                 FieldsKnown(ops[i].sels, OperationRootType(ops[i].operation))
         THEN <<>> ELSE <<"Cannot query field">>)
        \o (IF \A i \in 1..Len(frags) :
                  \E j \in 1..Len(ops) : Spreads(ops[j].sels, frags[i][1])
            THEN <<>> ELSE <<"Fragment is never used">>)
        \o (IF \A i \in 1..Len(source.declared) :
                  \E j \in 1..Len(ops) : UsesVariable(ops[j].sels)
            THEN <<>> ELSE <<"Variable is never used">>)

-----------------------------------------------------------------------------
(* SpecExec: requests on one Executor.  Executor.execute runs without       *)
(* suspension up to its await of resolve_root_nodes; the callables then     *)
(* run, and the request ends when their awaits are over.  Other requests    *)
(* run in between.                                                          *)

\* requests started on the Executor, and requests in flight at one time
MaxRequests == 4
MaxInFlight == 2

SrcPing == Source(Text(<<Query(<<Leaf("ping")>>)>>), <<>>, FALSE)
SrcUser == Source(Text(<<Query(<<Obj("user", <<Leaf("id")>>)>>)>>), <<>>, FALSE)
SrcAccount ==
    Source(Text(<<Query(<<Obj("user",
               <<Leaf("id"),
                 Obj("account", <<Leaf("__typename"),
                                  Inline("Admin", <<Leaf("level")>>)>>)>>)>>)>>),
           <<>>, FALSE)
\* query($v: String) { ping }
SrcUnusedVariable == Source(Text(<<Query(<<Leaf("ping")>>)>>), <<"v">>, FALSE)
\* { ping
SrcMalformed == Source(Text(<<Query(<<Leaf("ping")>>)>>), <<>>, TRUE)
\* fragment F on User { nick id }
SrcOnlyFragment == Source([ops |-> <<>>, frags |-> <<FragmentF>>], <<>>, FALSE)

\* the calls of Executor.execute made: <<source, use_cache, validate_query>>
Requests ==
    { <<SrcPing, TRUE, TRUE>>, <<SrcUser, TRUE, TRUE>>,
      <<SrcAccount, TRUE, TRUE>>, <<SrcAccount, FALSE, TRUE>>,
      <<SrcUnusedVariable, TRUE, TRUE>>, <<SrcUnusedVariable, TRUE, FALSE>>,
      <<SrcMalformed, TRUE, TRUE>>, <<SrcOnlyFragment, TRUE, FALSE>> }

EnvOk == [beh |-> [m \in MethodNames |-> "ok"],
          variables |-> VariablesDict(<< <<"v", VStr("x")>> >>)]

\* one call of execute: what it was given, what it has done so far (parses,
\* validations, translations, calls of application callables), where it is
Request(source, use_cache, validate_query) ==
    [k |-> "request", source |-> source, use_cache |-> use_cache,
     validate_query |-> validate_query,
     cached_at_start |-> NoValue,  \* the tree the cache held for source
     parses |-> 0, validations |-> 0, translations |-> 0, calls |-> 0,
     pc |-> "start", tree |-> NoValue, result |-> NotRun]

\* a reference to the tree object heap[t]
Ref(t) == [k |-> "ref", t |-> t]

Tree(source, root_nodes) == [source |-> source, root_nodes |-> root_nodes]

\* the id of a tree object not alive
FreshTree == CHOOSE t \in 1..(Cardinality(DOMAIN heap) + 1) : t \notin DOMAIN heap

\* the trees still referenced, by the cache or by a request in flight
Alive(h, c, rs) ==
    LET used == {c[i][2].t : i \in 1..Len(c)} \cup {rs[i].tree.t : i \in 1..Len(rs)}
    IN  [t \in DOMAIN h \cap used |-> h[t]]

InitExec ==
    /\ cache = <<>>
    /\ heap = <<>>
    /\ reqs = <<>>
    /\ probe = [k |-> "exec", started |-> 0, last |-> NotRun]
    /\ TranslateIdle
    /\ ResolveIdle
    /\ BuildIdle

Returned(r, result) == [r EXCEPT !.pc = "done", !.result = result]

\* Executor.execute up to its await (executor.py lines 60-113)
Execute(source, use_cache, validate_query) ==
    /\ probe.started < MaxRequests
    /\ Len(reqs) < MaxInFlight
    /\ \E t \in {translate(parse(source.text))}, errs \in {validate(source)} :
       LET cached == IF use_cache THEN dict_get(cache, source) ELSE NoValue
           r0 == [Request(source, use_cache, validate_query)
                      EXCEPT !.cached_at_start = dict_get(cache, source)]
           \* if not root_nodes
           miss == cached = NoValue \/ heap[cached.t].root_nodes = <<>>
           r1 == [r0 EXCEPT !.parses = 1]
           r2 == IF validate_query THEN [r1 EXCEPT !.validations = 1] ELSE r1
           r3 == [r2 EXCEPT !.translations = 1, !.tree = Ref(FreshTree)]
           started == [probe EXCEPT !.started = @ + 1]
       IN  IF ~miss
           THEN /\ reqs' = Append(reqs, [r0 EXCEPT !.tree = cached])
                /\ UNCHANGED <<cache, heap>>
                /\ probe' = started
           ELSE IF source.malformed
           THEN /\ probe' = [started EXCEPT !.last =
                                Returned(r1, Result(VNull, <<"Syntax Error">>))]
                /\ UNCHANGED <<cache, heap, reqs>>
           ELSE IF validate_query /\ errs # <<>>
           THEN /\ probe' = [started EXCEPT !.last = Returned(r2, Result(VNull, errs))]
                /\ UNCHANGED <<cache, heap, reqs>>
           ELSE IF t.raised
           THEN /\ probe' = [started EXCEPT !.last = Returned(r3, ExecuteRaised)]
                /\ UNCHANGED <<cache, heap, reqs>>
           ELSE /\ reqs' = Append(reqs, r3)
                /\ cache' = IF use_cache THEN CacheDict_setitem(cache, source, Ref(FreshTree))
                            ELSE cache
                /\ heap' = Alive((FreshTree :> Tree(source, t.nodes)) @@ heap,
                                 cache', reqs')
                /\ probe' = started
    /\ UNCHANGED <<translateVars, resolveVars, buildVars>>

\* the top-level fields of the tree, over all its operations
RECURSIVE TopFields(_)
TopFields(root_nodes) ==
    IF root_nodes = <<>> THEN <<>>
    ELSE Head(root_nodes).children \o TopFields(Tail(root_nodes))

\* the tree after the callables of its top-level fields have run: those that
\* build a query call from_info on info.node, their own node of the tree
AfterCallables(root_nodes) ==
    [i \in 1..Len(root_nodes) |->
        [root_nodes[i] EXCEPT !.children =
            [j \in 1..Len(root_nodes[i].children) |->
                LET child == root_nodes[i].children[j] IN
                IF child.k = "field" /\ QueryBuilt(child.name) # NoType
                THEN from_info(QueryBuilt(child.name), child)
                ELSE child]]]

\* resolve_root_nodes has started the root resolve_node of request i, which
\* has called the callables of the top-level fields; they are awaiting
Invoke(i) ==
    /\ reqs[i].pc = "start"
    /\ LET r == reqs[i]
           tree == heap[r.tree.t]
       IN  /\ reqs' = [reqs EXCEPT ![i] =
                          [r EXCEPT !.pc = "awaiting",
                                    !.calls = Len(TopFields(tree.root_nodes))]]
           /\ heap' = [heap EXCEPT ![r.tree.t] =
                          Tree(tree.source, AfterCallables(tree.root_nodes))]
    /\ UNCHANGED <<cache, probe, translateVars, resolveVars, buildVars>>

\* the data resolve_root_nodes returns for the tree, every callable
\* returning its value
ResolvedRoots(root_nodes) ==
    [i \in 1..Len(root_nodes) |->
        AloneFrame(root_nodes[i], operation_type_to_model(root_nodes[i].type),
                   <<>>, EnvOk)]

RECURSIVE AllErrors(_)
AllErrors(outcomes) ==
    IF outcomes = <<>> THEN <<>> ELSE Head(outcomes).errs \o AllErrors(Tail(outcomes))

\* the awaits of request i are over: execute returns its Result
Return(i) ==
    /\ reqs[i].pc = "awaiting"
    /\ \E outcomes \in {ResolvedRoots(heap[reqs[i].tree.t].root_nodes)} :
       LET r == reqs[i]
           result ==
               IF \E j \in 1..Len(outcomes) : outcomes[j].exc # NoExc THEN ExecuteRaised
               ELSE Result(VMap(merge_roots([j \in 1..Len(outcomes) |-> outcomes[j].val],
                                            <<>>)),
                           AllErrors(outcomes))
       IN  /\ reqs' = [j \in 1..(Len(reqs) - 1) |-> IF j < i THEN reqs[j] ELSE reqs[j + 1]]
           /\ probe' = [probe EXCEPT !.last = Returned(r, result)]
           /\ heap' = Alive(heap, cache, reqs')
    /\ UNCHANGED <<cache, translateVars, resolveVars, buildVars>>

NextExec ==
    \/ \E q \in Requests : Execute(q[1], q[2], q[3])
    \/ \E i \in 1..Len(reqs) : Invoke(i)
    \/ \E i \in 1..Len(reqs) : Return(i)

SpecExec == InitExec /\ [][NextExec]_vars

-----------------------------------------------------------------------------
(* C5, C7, C8, C10: the requests of one Executor                            *)

\* the calls of execute that have begun: those in flight and the last returned
Begun == SeqToSet(reqs) \cup (IF probe.last = NotRun THEN {} ELSE {probe.last})

Invalid(source) == source.malformed \/ validate(source) # <<>>

\* C5: a request executed with validation enabled whose text fails parsing
\* or validation returns data = null with a non-empty error list, and no
\* application callable is invoked for it, whatever requests came before.
C5_InvalidTextAborts ==
    \A r \in Begun :
        (r.validate_query /\ Invalid(r.source))
        => /\ r.pc = "done"
           /\ r.result.k = "result"
           /\ r.result.data = VNull
           /\ r.result.errors # <<>>
           /\ r.calls = 0

\* C7: a request with use_cache = TRUE whose text the cache holds when it
\* starts (an earlier use_cache request translated it and it has not been
\* evicted) parses, validates and translates nothing and is resolved against
\* the tree the cache held.
C7_CachedTextNotRetranslated ==
    \A r \in Begun :
        (r.use_cache /\ r.cached_at_start # NoValue)
        => /\ r.parses = 0 /\ r.validations = 0 /\ r.translations = 0
           /\ r.tree = r.cached_at_start

\* the call of execute this step begins
Beginning == IF Len(reqs') > Len(reqs) THEN reqs'[Len(reqs')] ELSE probe'.last

\* C8: the lookup Executor.execute performs on a cache hit marks the entry
\* most recently used, as a write does: after it the text is the last entry
\* of the cache.
C8_ReadMarksRecent ==
    [][(probe'.started # probe.started /\ Beginning.use_cache
            /\ DictHas(cache, Beginning.source))
       => cache'[Len(cache')][1] = Beginning.source]_vars

\* C10: every selection tree alive, cached or held by a request, equals the
\* tree as Translator.translate built it from its text.
C10_TreeNeverModified ==
    \A t \in DOMAIN heap :
        heap[t].root_nodes = translate(parse(heap[t].source.text)).nodes

-----------------------------------------------------------------------------
(* QueryBuilder (query_builders/sql/query_builder.py and                    *)
(* query_builders/edgedb/query_builder.py).  A query text is a sequence of  *)
(* tokens: plain text, a variable reference $name, $current, $parent.  A    *)
(* reference also records val, the value its builder held for the name when *)
(* it composed the text: val is history, no operation reads it.             *)

Tok(s) == [t |-> "text", s |-> s, val |-> NoValue]
RefTok(name, val) == [t |-> "ref", s |-> name, val |-> val]
Current == [t |-> "current", s |-> "$current", val |-> NoValue]
Parent == [t |-> "parent", s |-> "$parent", val |-> NoValue]

\* an attribute of type str | None
NoText == [none |-> TRUE, s |-> <<>>]
SomeText(toks) == [none |-> FALSE, s |-> toks]

\* Python truthiness of a str | None
TextTruthy(x) == ~x.none /\ x.s # <<>>

\* the two classes called QueryBuilder, as constructed: cls is "sql" or
\* "edgedb"; selections holds the SelectionField / SelectionSub of the sql
\* class, fields (a set of str) and children (a dict name -> ChildEdge) the
\* fields and the child edges of the edgedb class.
QueryBuilder(cls, table_name, cardinality) ==
    [cls |-> cls, table_name |-> table_name, cardinality |-> cardinality,
     selections |-> <<>>, fields |-> {}, children |-> <<>>, variables |-> <<>>,
     from_ |-> NoText, where |-> NoText, filter |-> NoText, order_by |-> NoText,
     offset |-> NoText, limit |-> NoText]

SelectionField(name, path) == [k |-> "field", name |-> name, path |-> path, qb |-> 0]
SelectionSub(name, qb) == [k |-> "sub", name |-> name, path |-> <<>>, qb |-> qb]

\* ChildEdge (edgedb); qb is the place of the child builder among the builders
ChildEdge(db_expression, qb) == [db_expression |-> db_expression, qb |-> qb]

\* how a method call ends: the builder afterwards, and whether it raised
\* QueryBuilderError
Returns(qb) == [qb |-> qb, raised |-> FALSE]
Raises(qb) == [qb |-> qb, raised |-> TRUE]

\* QueryBuilder.add_variable
add_variable(qb, key, val, replace) ==
    IF DictHas(qb.variables, key) /\ ~replace /\ DictGet(qb.variables, key) # val
    THEN Raises(qb)
    ELSE Returns([qb EXCEPT !.variables = DictSet(@, key, val)])

\* QueryBuilder.add_variables; variables is a dict, <<>> also standing for None
add_variables(qb, variables, replace) ==
    IF variables = <<>> THEN Returns(qb)
    ELSE IF ~replace /\ \E i \in 1..Len(variables) : DictHas(qb.variables, variables[i][1])
    THEN Raises(qb)
    ELSE Returns([qb EXCEPT !.variables = dict_update(@, variables)])

\* the text set_offset and set_limit assign
OffsetText(cls) ==
    IF cls = "sql" THEN <<Tok("OFFSET"), RefTok("offset", NoValue)>>
    ELSE <<Tok("OFFSET <int32>"), RefTok("offset", NoValue)>>
LimitText(cls) ==
    IF cls = "sql" THEN <<Tok("LIMIT"), RefTok("limit", NoValue)>>
    ELSE <<Tok("LIMIT <int32>"), RefTok("limit", NoValue)>>

\* QueryBuilder.set_offset; offset is an int or None
set_offset(qb, offset, replace) ==
    IF offset = NoValue THEN Returns(qb)
    ELSE IF ~qb.offset.none /\ ~replace THEN Raises(qb)
    ELSE add_variable([qb EXCEPT !.offset = SomeText(OffsetText(qb.cls))],
                      "offset", offset, replace)

\* set_limit without the check of self.limit
set_limit_unguarded(qb, limit, replace) ==
    IF limit = NoValue THEN Returns(qb)
    ELSE Returns([qb EXCEPT !.limit = SomeText(LimitText(qb.cls)),
                            !.variables = DictSet(@, "limit", limit)])

\* QueryBuilder.set_limit; limit is an int or None
set_limit(qb, limit, replace) ==
    IF limit = NoValue THEN Returns(qb)
    ELSE IF ~qb.limit.none /\ ~replace THEN Raises(qb)
    ELSE add_variable([qb EXCEPT !.limit = SomeText(LimitText(qb.cls))],
                      "limit", limit, replace)

\* QueryBuilder.set_filter (edgedb)
set_filter(qb, filter, variables, replace_filter, replace_variables) ==
    IF TextTruthy(qb.filter) /\ ~replace_filter THEN Raises(qb)
    ELSE LET r == add_variables(qb, variables, replace_variables) IN
         IF r.raised THEN r ELSE Returns([r.qb EXCEPT !.filter = SomeText(filter)])

\* set_order_by without the check of self.order_by
set_order_by_unguarded(qb, order_by, variables, replace_order_by, replace_variables) ==
    LET r == add_variables(qb, variables, replace_variables) IN
    IF r.raised THEN r ELSE Returns([r.qb EXCEPT !.order_by = SomeText(order_by)])

\* QueryBuilder.set_order_by
set_order_by(qb, order_by, variables, replace_order_by, replace_variables) ==
    IF TextTruthy(qb.order_by) /\ ~replace_order_by THEN Raises(qb)
    ELSE LET r == add_variables(qb, variables, replace_variables) IN
         IF r.raised THEN r ELSE Returns([r.qb EXCEPT !.order_by = SomeText(order_by)])

\* QueryBuilder.and_where (sql), without variables
and_where(qb, where) ==
    IF ~TextTruthy(qb.where) THEN [qb EXCEPT !.where = SomeText(where)]
    ELSE [qb EXCEPT !.where = SomeText(qb.where.s \o <<Tok("AND")>> \o where)]

\* split_text_around_where: the text before and after the first WHERE
RECURSIVE IndexOfWhere(_, _)
IndexOfWhere(text, i) ==
    IF i > Len(text) THEN 0
    ELSE IF text[i] \in {Tok("WHERE"), Tok("where")} THEN i
    ELSE IndexOfWhere(text, i + 1)

split_text_around_where(text) ==
    LET i == IndexOfWhere(text, 1) IN
    IF i = 0 THEN [before_where |-> text, after_where |-> NoText]
    ELSE [before_where |-> SubSeq(text, 1, i - 1),
          after_where |-> SomeText(SubSeq(text, i + 1, Len(text)))]

\* QueryBuilder.set_from (sql), without variables and without replace_from
set_from(qb, from_) ==
    IF TextTruthy(qb.from_) THEN Raises(qb)
    ELSE LET parts == split_text_around_where(from_)
             q == [qb EXCEPT !.from_ = SomeText(parts.before_where)]
         IN  Returns(IF TextTruthy(parts.after_where) THEN and_where(q, parts.after_where.s)
                     ELSE q)

\* QueryBuilder.sel (sql), without variables
sel(qb, name, path) ==
    [qb EXCEPT !.selections =
        Append(@, SelectionField(name, IF path = <<>> THEN <<Current, Tok("." \o name)>>
                                       ELSE path))]

\* QueryBuilder.sel_sub (sql)
sel_sub(qb, name, child) == [qb EXCEPT !.selections = Append(@, SelectionSub(name, child))]

-----------------------------------------------------------------------------
(* QueryBuilder.build (sql) and the merge of the variables of a child,      *)
(* which the edgedb class has too (edgedb/query_builder.py lines 54-69)     *)

\* re.sub(r"[^a-zA-Z0-9]+", "_", child_name) on the edge names of the model
sanitize_child_name(child_name) == IF child_name = "f__2" THEN "f_2" ELSE child_name

\* the name of the child's variable taken as it is
var_name_kept(child_name, var_name, variables_to_use) == var_name

\* QueryBuilder.build_child_var_name: count stays 0
RECURSIVE build_child_var_name(_, _, _)
build_child_var_name(child_name, var_name, variables_to_use) ==
    IF DictHas(variables_to_use, var_name)
    THEN build_child_var_name(child_name,
             "_" \o sanitize_child_name(child_name) \o "_" \o var_name, variables_to_use)
    ELSE var_name

\* re.compile(r"\$var_name(?!\w)").sub("$new_var_name", s)
regex_sub(s, var_name, new_var_name) ==
    [i \in 1..Len(s) |->
        IF s[i].t = "ref" /\ s[i].s = var_name THEN [s[i] EXCEPT !.s = new_var_name]
        ELSE s[i]]

\* the loop of build_subquery over the variables v of the child built as s;
\* `var_val is variables[var_name]` on ints: the same int is the same object
RECURSIVE merge_child_variables(_, _, _, _)
merge_child_variables(name, s, v, variables) ==
    IF v = <<>> THEN [s |-> s, variables |-> variables]
    ELSE LET var_name == Head(v)[1]
             var_val == Head(v)[2]
         IN  IF DictHas(variables, var_name)
             THEN IF var_val = DictGet(variables, var_name)
                  THEN merge_child_variables(name, s, Tail(v), variables)
                  ELSE LET new_var_name == build_child_var_name(name, var_name, variables)
                       IN  merge_child_variables(
                               name, regex_sub(s, var_name, new_var_name), Tail(v),
                               DictSet(variables, new_var_name, var_val))
             ELSE merge_child_variables(name, s, Tail(v),
                                        DictSet(variables, var_name, var_val))

\* the references of a builder's own text, each with the value the builder
\* holds for its name
Stamp(text, variables) ==
    [i \in 1..Len(text) |->
        IF text[i].t = "ref" /\ DictHas(variables, text[i].s)
        THEN [text[i] EXCEPT !.val = DictGet(variables, text[i].s)]
        ELSE text[i]]

\* QueryBuilder.build_filter_parts_s
build_filter_parts_s(qb) ==
    (IF TextTruthy(qb.where) THEN <<Tok("WHERE")>> \o qb.where.s ELSE <<>>)
        \o (IF TextTruthy(qb.order_by) THEN <<Tok("ORDER BY")>> \o qb.order_by.s ELSE <<>>)
        \o (IF TextTruthy(qb.offset) THEN qb.offset.s ELSE <<>>)
        \o (IF TextTruthy(qb.limit) THEN qb.limit.s ELSE <<>>)

\* QueryBuilder.replace_current_and_parent
replace_current_and_parent(s, table_alias, parent_table_alias) ==
    [i \in 1..Len(s) |->
        IF s[i].t = "current" THEN Tok(table_alias)
        ELSE IF s[i].t = "parent" /\ parent_table_alias # ""
        THEN Tok(parent_table_alias)
        ELSE s[i]]

\* json_agg_wrap leaving the select as it is
json_agg_wrap_none(s, table_alias) == s

\* the aggregating sub-select build puts around s when cardinality is MANY
json_agg_wrap(s, table_alias) ==
    <<Tok("SELECT COALESCE(json_agg(" \o table_alias \o "_json), '[]'::json) AS "
              \o table_alias \o "_json_agg FROM (")>>
        \o s \o <<Tok(") as " \o table_alias \o "_json_sub")>>

BuildRaised(store) == [raised |-> TRUE, s |-> <<>>, v |-> <<>>, qbs |-> store]

\* the names of the fields and links of the model, in the order of Python's
\* comparison of str
NameOrder == <<"account__Admin", "account__User", "best", "f__2", "first_name",
               "friends", "id", "level">>

\* the place of a field string in that order: the strings start with the
\* name, and of two strings of one name that of a plain selection is the
\* smaller ('id', $current... < 'id', (...)
FieldStr(name, kind, text) ==
    [rank |-> 2 * (CHOOSE i \in 1..Len(NameOrder) : NameOrder[i] = name)
                  + (IF kind = "sub" THEN 1 ELSE 0),
     text |-> text]

\* a sort that leaves the list as it is
sorted_as_added(strs) == strs

\* list.sort() / sorted() on field strings: a stable sort
RECURSIVE sorted(_)
sorted(strs) ==
    IF strs = <<>> THEN <<>>
    ELSE LET least == CHOOSE i \in 1..Len(strs) :
                          /\ \A j \in 1..Len(strs) : strs[i].rank <= strs[j].rank
                          /\ \A j \in 1..(i - 1) : strs[j].rank # strs[i].rank
         IN  <<strs[least]>>
                 \o sorted(SubSeq(strs, 1, least - 1) \o SubSeq(strs, least + 1, Len(strs)))

RECURSIVE build(_, _, _, _, _), build_subqueries(_, _, _, _, _, _, _)

\* build_fields_s: the subquery strings of the SelectionSubs sels, in order;
\* acc is [strs, variables, qbs]
build_subqueries(sels, new_path, table_alias, acc_strs, variables, store, order_fields_alphabetically) ==
    IF sels = <<>>
    THEN [raised |-> FALSE, strs |-> acc_strs, variables |-> variables, qbs |-> store]
    ELSE LET sub == Head(sels)
             r == build(store, sub.qb, table_alias, new_path, order_fields_alphabetically)
         IN  IF r.raised
             THEN [raised |-> TRUE, strs |-> <<>>, variables |-> variables, qbs |-> r.qbs]
             ELSE LET m == merge_child_variables(sub.name, r.s, r.v, variables)
                      \* build_subquery line 249
                      str == FieldStr(sub.name, "sub",
                                      <<Tok("'" \o sub.name \o "', (")>> \o m.s \o <<Tok(")")>>)
                  IN  build_subqueries(Tail(sels), new_path, table_alias,
                                       Append(acc_strs, str), m.variables, r.qbs,
                                       order_fields_alphabetically)

\* ", ".join(strs)
RECURSIVE join_fields(_)
join_fields(strs) ==
    IF strs = <<>> THEN <<>>
    ELSE IF Len(strs) = 1 THEN Head(strs).text
    ELSE Head(strs).text \o <<Tok(",")>> \o join_fields(Tail(strs))

\* QueryBuilder.build(parent_table_alias, path, order_fields_alphabetically)
\* of the builder store[id]: the text s, the
\* variables v, and the builders afterwards (build assigns from_).  path is
\* "__".join(path), "" for None; table_alias and full_query_str stay None and
\* ctes empty, no table name holds a quote.
build(store, id, parent_table_alias, path, order_fields_alphabetically) ==
    LET self == store[id]
        new_path == IF path # "" THEN path \o "__" \o self.table_name ELSE self.table_name
        table_alias == IF path = "" THEN "_" \o new_path ELSE new_path
        subs == build_subqueries(SelectSeq(self.selections, LAMBDA x : x.k = "sub"),
                                 new_path, table_alias, <<>>, self.variables, store,
                                 order_fields_alphabetically)
        selection_strs ==
            LET fs == SelectSeq(self.selections, LAMBDA x : x.k = "field")
            IN  [i \in 1..Len(fs) |->
                    FieldStr(fs[i].name, "field",
                             <<Tok("'" \o fs[i].name \o "',")>>
                                 \o Stamp(fs[i].path, self.variables))]
        all_fields_strs == IF order_fields_alphabetically
                           THEN sorted(selection_strs \o subs.strs)
                           ELSE selection_strs \o subs.strs
    IN  IF subs.raised THEN BuildRaised(subs.qbs)
        ELSE IF all_fields_strs = <<>> THEN BuildRaised(subs.qbs)
        ELSE
        LET fields_s == join_fields(all_fields_strs)
            filter_parts_s == Stamp(build_filter_parts_s(self), self.variables)
            own_from == <<Tok("FROM"), Tok(self.table_name), Tok(table_alias)>>
            from_ == IF ~TextTruthy(self.from_) THEN own_from
                     ELSE IF Head(self.from_.s) \in {Tok("FROM"), Tok("from")}
                     THEN self.from_.s
                     ELSE own_from \o self.from_.s
            s == <<Tok("SELECT json_build_object(")>> \o fields_s
                     \o <<Tok(") AS " \o table_alias \o "_json")>>
                     \o Stamp(from_, self.variables) \o filter_parts_s
            wrapped == IF self.cardinality = "MANY" THEN json_agg_wrap(s, table_alias) ELSE s
        IN  [raised |-> FALSE,
             s |-> replace_current_and_parent(wrapped, table_alias, parent_table_alias),
             v |-> subs.variables,
             qbs |-> [subs.qbs EXCEPT ![id].from_ = SomeText(from_)]]

-----------------------------------------------------------------------------
(* QueryBuilderConfig.from_info (sql/config.py): the builders it makes.     *)
(* The config of User has the properties id and first_name and the links    *)
(* account (a union), best (ONE) and friends (MANY); the update_qbs of      *)
(* friends is                                                               *)
(*     def update_friends(child_qb, limit: int = None):                     *)
(*         child_qb.set_limit(limit)                                        *)
(* and the property tag is Property(path=None, update_qb=update_tag) with   *)
(*     def update_tag(qb):                                                  *)
(*         qb.and_where("$current.tagged")                                  *)

\* QueryBuilderConfig.properties: name -> Property.path, <<>> for None
ConfigProperties(table) ==
    CASE table = "User" -> << <<"id", <<Current, Tok(".id")>> >>,
                              <<"first_name", <<Current, Tok(".first_name")>> >>,
                              <<"tag", <<>> >> >>
      [] table = "Admin" -> << <<"id", <<Current, Tok(".id")>> >>,
                               <<"level", <<Current, Tok(".level")>> >> >>
      [] OTHER -> <<>>

\* Link.cardinality, Link.from_ and Link.update_qbs of the link called name
LinkCardinality(name) == IF name = "friends" THEN "MANY" ELSE "ONE"

LinkFrom(name) ==
    <<Tok("FROM"), Tok("User"), Current, Tok("WHERE"), Current,
      Tok("." \o name \o "_of ="), Parent, Tok(".id")>>

LinkUpdatesLimit(name) == name = "friends"

\* execute_update_qbs with update_friends: the child builder afterwards
execute_update_qbs(original_child, child_qb) ==
    LET given == SelectSeq(original_child.arguments, LAMBDA a : a.name = "limit") IN
    IF given = <<>> THEN set_limit(child_qb, NoValue, FALSE)
    ELSE IF validate_python_raises("int", given[Len(given)].value) THEN Raises(child_qb)
    ELSE set_limit(child_qb, validate_python("int", given[Len(given)].value), FALSE)

\* Property.update_qb of the property called name is update_tag
PropertyUpdatesWhere(name) == name = "tag"

update_tag(qb) == and_where(qb, <<Current, Tok(".tagged")>>)

\* a variant of the property branch that selects every property, a property
\* without a path under the default path of sel
from_info_property_any_path(table, child, qb) ==
    LET selected == sel(qb, child.name, DictGet(ConfigProperties(table), child.name))
    IN  IF PropertyUpdatesWhere(child.name) THEN update_tag(selected) ELSE selected

\* from_info on a child that is a property (lines 96-121): the builder qb
\* afterwards
from_info_property(table, child, qb) ==
    LET path_to_value == DictGet(ConfigProperties(table), child.name)
        selected == IF path_to_value # <<>> THEN sel(qb, child.name, path_to_value) ELSE qb
    IN  IF PropertyUpdatesWhere(child.name) THEN update_tag(selected) ELSE selected

FromInfoRaised(store) == [raised |-> TRUE, id |-> 0, qbs |-> store]

RECURSIVE from_info_qb(_, _, _, _), from_info_loop(_, _, _, _),
          from_info_union(_, _, _, _, _, _)

\* the isinstance(config, dict) branch: one builder per inline fragment of
\* child, whose children were extended with the dangling ones
from_info_union(link_name, child, fragments, dangling_children, id, store) ==
    IF fragments = <<>> THEN [raised |-> FALSE, id |-> id, qbs |-> store]
    ELSE LET child_child == [Head(fragments) EXCEPT !.children = @ \o dangling_children]
             c == from_info_qb(child_child.name, child_child, LinkCardinality(link_name), store)
         IN  IF c.raised THEN FromInfoRaised(c.qbs)
             ELSE LET f == set_from(c.qbs[c.id], LinkFrom(link_name))
                      name == (IF child.alias # NoAlias THEN child.alias ELSE child.name)
                                  \o "__" \o child_child.name
                  IN  IF f.raised THEN FromInfoRaised(c.qbs)
                      ELSE from_info_union(link_name, child, Tail(fragments),
                               dangling_children, id,
                               [c.qbs EXCEPT ![c.id] = f.qb,
                                             ![id] = sel_sub(@, name, c.id)])

\* the while loop of from_info for the builder store[id]
from_info_loop(table, children_q, id, store) ==
    IF children_q = <<>> THEN [raised |-> FALSE, id |-> id, qbs |-> store]
    ELSE LET child == Head(children_q) IN
    IF child.k = "inline"
    THEN from_info_loop(table, Tail(children_q) \o child.children, id, store)
    ELSE
    LET with_property ==
            IF DictHas(ConfigProperties(table), child.name)
            THEN [store EXCEPT ![id] = from_info_property(table, child, @)]
            ELSE store
    IN  IF ~DictHas(ConfigLinks(table), child.name)
        THEN from_info_loop(table, Tail(children_q), id, with_property)
        ELSE
        LET link == DictGet(ConfigLinks(table), child.name) IN
        IF link.k = "union"
        THEN LET u == from_info_union(
                          child.name, child,
                          SelectSeq(child.children, LAMBDA c : c.k = "inline"),
                          SelectSeq(child.children, LAMBDA c : c.k = "field"),
                          id, with_property)
             IN  IF u.raised THEN u
                 ELSE from_info_loop(table, Tail(children_q), id, u.qbs)
        ELSE
        LET c == from_info_qb(link.type, child, LinkCardinality(child.name), with_property)
        IN  IF c.raised THEN FromInfoRaised(c.qbs)
            ELSE
            LET f == set_from(c.qbs[c.id], LinkFrom(child.name))
                linked == [c.qbs EXCEPT ![c.id] = f.qb,
                                        ![id] = sel_sub(@,
                                            IF child.alias # NoAlias THEN child.alias
                                            ELSE child.name, c.id)]
                h == IF LinkUpdatesLimit(child.name)
                     THEN execute_update_qbs(child, linked[c.id])
                     ELSE Returns(linked[c.id])
            IN  IF f.raised \/ h.raised THEN FromInfoRaised(linked)
                ELSE from_info_loop(table, Tail(children_q), id,
                                    [linked EXCEPT ![c.id] = h.qb])

\* QueryBuilderConfig(table).from_info(info, node, cardinality): the id of the
\* builder made and the builders alive afterwards
from_info_qb(table, node, cardinality, store) ==
    from_info_loop(table, node.children, Len(store) + 1,
                   Append(store, QueryBuilder("sql", table, cardinality)))

\* a set of field strings as a list, in any order
RECURSIVE ListOf(_)
ListOf(S) ==
    IF S = {} THEN <<>>
    ELSE LET x == CHOOSE y \in S : TRUE IN <<x>> \o ListOf(S \ {x})

RECURSIVE edgedb_build(_, _), edgedb_build_children(_, _, _, _)

\* the loop of build (edgedb) over self.children.items() (lines 51-76):
\* children is what is left of the dict, acc_strs the child_strs so far
edgedb_build_children(children, acc_strs, variables_to_use, store) ==
    IF children = <<>> THEN [strs |-> acc_strs, variables |-> variables_to_use]
    ELSE LET child_name == Head(children)[1]
             child_edge == Head(children)[2]
             r == edgedb_build(store, child_edge.qb)
             m == merge_child_variables(child_name, r.s, r.v, variables_to_use)
             child_str ==
                 IF child_edge.db_expression = ""
                 THEN <<Tok(child_name \o ":")>> \o m.s
                 ELSE <<Tok(child_name \o " := (select " \o child_edge.db_expression)>>
                          \o m.s \o <<Tok(")")>>
         IN  edgedb_build_children(Tail(children),
                 Append(acc_strs, FieldStr(child_name, "sub", child_str)),
                 m.variables, store)

\* QueryBuilder.build (edgedb) of the builder store[id]; full_query_str stays
\* None
edgedb_build(store, id) ==
    LET qb == store[id]
        c == edgedb_build_children(qb.children, <<>>, qb.variables, store)
        fields == sorted(ListOf({FieldStr(f, "field", <<Tok(f)>>) : f \in qb.fields}))
        fields_str == join_fields(fields \o sorted(c.strs))
    IN  [raised |-> FALSE,
         s |-> (IF fields_str = <<>> THEN <<Tok("")>>
                ELSE <<Tok("{")>> \o fields_str \o <<Tok("}")>>)
                   \o Stamp((IF TextTruthy(qb.filter) THEN <<Tok("FILTER")>> \o qb.filter.s
                             ELSE <<>>)
                                \o (IF TextTruthy(qb.order_by)
                                    THEN <<Tok("ORDER BY")>> \o qb.order_by.s ELSE <<>>)
                                \o (IF ~qb.offset.none THEN qb.offset.s ELSE <<>>)
                                \o (IF ~qb.limit.none THEN qb.limit.s ELSE <<>>),
                            qb.variables),
         v |-> c.variables]

-----------------------------------------------------------------------------
(* What qbOut records                                                       *)

\* a call of a method on a builder: before is the builder before the call,
\* earlier the methods called on it before, n the number of calls so far
Called(op, args, before, raised) ==
    [op |-> op, args |-> args, before |-> before, raised |-> raised,
     earlier |-> IF qbOut = NotRun THEN {} ELSE qbOut.earlier \cup {qbOut.op},
     n |-> IF qbOut = NotRun THEN 1 ELSE qbOut.n + 1,
     s |-> <<>>, v |-> <<>>, prev |-> NotRun]

\* a call of build: the text and the variables returned; prev is the call
\* before, before the builders before the call
Built(args, raised, text, variables) ==
    [op |-> "build", args |-> args, before |-> qbs, raised |-> raised,
     earlier |-> IF qbOut = NotRun THEN {} ELSE qbOut.earlier \cup {qbOut.op},
     n |-> IF qbOut = NotRun THEN 1 ELSE qbOut.n + 1,
     s |-> text, v |-> variables, prev |-> IF qbOut = NotRun THEN NotRun
                                           ELSE [qbOut EXCEPT !.prev = NotRun]]

\* build_root(order_fields_alphabetically=...), or build() of the edgedb
\* class, on the first builder
Build ==
    /\ qbs # <<>>
    /\ qbOut # NotRun => qbOut.op # "build"
    /\ \E order_fields_alphabetically \in BOOLEAN :
          \E r \in {IF qbs[1].cls = "sql"
                    THEN build(qbs, 1, "", "", order_fields_alphabetically)
                    ELSE edgedb_build(qbs, 1) @@ [qbs |-> qbs]} :
             /\ qbOut' = Built([parent_table_alias |-> "", path |-> "",
                                order_fields_alphabetically |-> order_fields_alphabetically],
                               r.raised, r.s, r.v)
             /\ qbs' = r.qbs
    /\ UNCHANGED <<qbReq, translateVars, resolveVars, execVars>>

-----------------------------------------------------------------------------
(* SpecBuild: the callable of Query.user or Query.users builds its query:   *)
(*     qb = await config.from_info(info, info.node, cardinality)            *)
(*     s, v = qb.set_limit(limit).build_root()                              *)
(* with cardinality ONE for user and MANY for users, and limit: int = None. *)

\* the limits written in a request: 1..MaxLimit
MaxLimit == 2

LimitArgs == {<<>>} \cup {<<Arg("limit", Lit(ToString(n)))>> : n \in 1..MaxLimit}

\* the selections of the root field: friends within friends, friends twice,
\* best
BChain(b, c) ==
    <<Leaf("id"),
      ObjAs(NoAlias, "friends", b,
            <<Leaf("id"), ObjAs(NoAlias, "friends", c, <<Leaf("id")>>)>>)>>
BFan(b, c) ==
    <<Leaf("id"), ObjAs(NoAlias, "friends", b, <<Leaf("id")>>),
      ObjAs("f__2", "friends", c, <<Leaf("firstName")>>)>>
BOne == <<Leaf("id"), Obj("best", <<Leaf("id")>>)>>

\* friends with its limit given by the variable v
BVariable ==
    <<Leaf("id"), ObjAs(NoAlias, "friends", <<Arg("limit", VarRef("v"))>>, <<Leaf("id")>>)>>

\* properties only: under an alias, twice, without a path, in a fragment
BProperties ==
    { <<Aliased("uid", "id")>>,
      <<Aliased("a", "id"), Aliased("b", "id")>>,
      <<Leaf("id"), Leaf("tag")>>,
      <<Leaf("tag"), Aliased("uid", "id"), Aliased("t", "tag")>>,
      <<Inline("User", <<Leaf("tag"), Leaf("firstName")>>), Aliased("uid", "id")>> }

BTexts ==
    {Text(<<Query(<<ObjAs(NoAlias, root, a, sels)>>)>>) :
        root \in {"user", "users"}, a \in LimitArgs,
        sels \in {BChain(b, c) : b, c \in LimitArgs}
                     \cup {BFan(b, c) : b, c \in LimitArgs} \cup {BOne}
                     \cup BProperties \cup {BVariable}}

\* the cardinality the callable of the root field passes to from_info
RootCardinality(name) == IF name = "users" THEN "MANY" ELSE "ONE"

InitBuild ==
    /\ \E text \in BTexts :
          qbReq = [k |-> "field", text |-> text,
                   variables |-> VariablesDict(<< <<"v", VStr("1")>> >>),
                   node |-> translate(parse(text)).nodes[1].children[1]]
    /\ qbs = <<>>
    /\ qbOut = NotRun
    /\ TranslateIdle
    /\ ResolveIdle
    /\ ExecIdle

\* config.from_info(info, info.node, cardinality)
FromInfo ==
    /\ qbOut = NotRun
    /\ \E r \in {from_info_qb("User", qbReq.node,
                              RootCardinality(qbReq.node.name), <<>>)} :
          /\ qbs' = r.qbs
          /\ qbOut' = Called("from_info", <<>>, NoValue, r.raised)
    /\ UNCHANGED <<qbReq, translateVars, resolveVars, execVars>>

\* qb.set_limit(limit) with the limit argument of the root field, which
\* Resolver.build_kwargs validated as an int
CallableSetLimit ==
    /\ qbOut # NotRun
    /\ qbOut.op = "from_info" /\ ~qbOut.raised
    /\ LET given == SelectSeq(qbReq.node.arguments, LAMBDA a : a.name = "limit")
           limit == IF given = <<>> THEN NoValue
                    ELSE validate_python("int", given[1].value)
           r == set_limit(qbs[1], limit, FALSE)
       IN  /\ qbs' = [qbs EXCEPT ![1] = r.qb]
           /\ qbOut' = Called("set_limit", [limit |-> limit, replace |-> FALSE],
                              qbs[1], r.raised)
    /\ UNCHANGED <<qbReq, translateVars, resolveVars, execVars>>

NextBuild ==
    \/ FromInfo
    \/ CallableSetLimit
    \/ Build

SpecBuild == InitBuild /\ [][NextBuild]_vars

-----------------------------------------------------------------------------
(* Claims about the built query                                             *)

\* the references to variables in a built text
RefsOf(text) == {text[i] : i \in {j \in 1..Len(text) : text[j].t = "ref"}}

\* a build that returned a text for a request with nested builders
BuiltText == qbOut # NotRun /\ qbOut.op = "build" /\ ~qbOut.raised

\* C11: after build, every reference to a variable in the parent's text
\* resolves, in the variables build returns, to the value bound by the
\* builder that wrote the reference: the variables of a child are merged
\* into the parent's without changing what any reference means
C11_NoCrossContamination ==
    BuiltText =>
        \A tok \in RefsOf(qbOut.s) :
            /\ DictHas(qbOut.v, tok.s)
            /\ tok.val # NoValue => DictGet(qbOut.v, tok.s) = tok.val

\* the wrapper that build puts around the select of a builder of cardinality
\* MANY
JsonAggHead(table_alias) ==
    Tok("SELECT COALESCE(json_agg(" \o table_alias \o "_json), '[]'::json) AS "
            \o table_alias \o "_json_agg FROM (")

IsJsonAgg(text, table_alias) ==
    /\ Len(text) >= 2
    /\ text[1] = JsonAggHead(table_alias)
    /\ text[Len(text)] = Tok(") as " \o table_alias \o "_json_sub")

\* the builders of the links of node are of the cardinality of their Link
RECURSIVE LinkCardinalities(_, _)
LinkCardinalities(node, id) ==
    \A i \in 1..Len(node.children) :
        LET child == node.children[i] IN
        (child.k = "field" /\ DictHas(ConfigLinks("User"), child.name)
            /\ DictGet(ConfigLinks("User"), child.name).k = "single") =>
            \E j \in 1..Len(qbs[id].selections) :
                LET sub == qbs[id].selections[j] IN
                /\ sub.k = "sub"
                /\ sub.name = ResponseKey(child)
                /\ qbs[sub.qb].cardinality = LinkCardinality(child.name)
                /\ LinkCardinalities(child, sub.qb)

\* C14: the text build returns for a builder is wrapped in the json_agg
\* sub-select exactly when the builder's cardinality is MANY, the wrapped text
\* being the text of the same builder with cardinality ONE; and the builder of
\* a link has the cardinality the Link declares
C14_ManyIsWrapped ==
    (qbOut # NotRun /\ ~qbOut.raised) =>
        /\ LinkCardinalities(qbReq.node, 1)
        /\ \A id \in DOMAIN qbs :
              \E many \in {build([qbs EXCEPT ![id].cardinality = "MANY"], id, "_p", "p",
                                  FALSE)},
                 one \in {build([qbs EXCEPT ![id].cardinality = "ONE"], id, "_p", "p",
                                 FALSE)} :
                 /\ ~many.raised /\ ~one.raised
                 /\ ~IsJsonAgg(one.s, "p__" \o qbs[id].table_name)
                 /\ IsJsonAgg(many.s, "p__" \o qbs[id].table_name)
                 /\ SubSeq(many.s, 2, Len(many.s) - 1) = one.s
                 /\ many.v = one.v
        /\ qbOut.op = "build" =>
              (IsJsonAgg(qbOut.s, "_" \o qbs[1].table_name)
                  <=> RootCardinality(qbReq.node.name) = "MANY")

\* a users request with a friends link has been built: the root text is
\* wrapped, and so is the friends sub-select inside it
C14_Witness ==
    /\ BuiltText
    /\ qbReq.node.name = "users"
    /\ IsJsonAgg(qbOut.s, "_User")
    /\ \E i \in 2..(Len(qbOut.s) - 1) : qbOut.s[i] = JsonAggHead("User__User")

-----------------------------------------------------------------------------
(* SpecSetters: an application calls the mutation methods of one builder,   *)
(* of either class, with any arguments, and builds it.                      *)

\* the calls of mutation methods made on the builder
MaxCalls == 2

Calls == IF qbOut = NotRun THEN 0 ELSE qbOut.n

\* a mutation method may be called
MayCall == Calls < MaxCalls /\ (qbOut # NotRun => qbOut.op # "build")

Limits == {NoValue} \cup {VInt(n) : n \in 1..MaxLimit}
Offsets == {NoValue, VInt(1)}
\* a filter or order_by text with the variables passed along with it
Filters == {[text |-> <<>>, variables |-> <<>>],
            [text |-> <<Tok(".n ="), RefTok("n", NoValue)>>,
             variables |-> << <<"n", VInt(1)>> >>]}
OrderBys == {[text |-> <<>>, variables |-> <<>>],
             [text |-> <<Tok(".id")>>, variables |-> <<>>]}
VariableDicts == {<<>>} \cup {<< <<"n", VInt(n)>> >> : n \in 1..MaxLimit}

InitSetters ==
    /\ \E cls \in {"sql", "edgedb"} :
          /\ qbReq = [k |-> "class", cls |-> cls]
          /\ qbs = <<IF cls = "sql" THEN sel(QueryBuilder(cls, "User", "ONE"), "id", <<>>)
                     ELSE QueryBuilder(cls, "User", "ONE")>>
    /\ qbOut = NotRun
    /\ TranslateIdle
    /\ ResolveIdle
    /\ ExecIdle

\* the call op(args) on the builder ended as r
Ends(op, args, r) ==
    /\ qbs' = [qbs EXCEPT ![1] = r.qb]
    /\ qbOut' = Called(op, args, qbs[1], r.raised)
    /\ UNCHANGED <<qbReq, translateVars, resolveVars, execVars>>

AddVariable ==
    /\ MayCall
    /\ \E key \in {"n", "limit"}, n \in 1..MaxLimit, replace \in BOOLEAN :
          Ends("add_variable", [key |-> key, val |-> VInt(n), replace |-> replace],
               add_variable(qbs[1], key, VInt(n), replace))

AddVariables ==
    /\ MayCall
    /\ \E variables \in VariableDicts, replace \in BOOLEAN :
          Ends("add_variables", [variables |-> variables, replace |-> replace],
               add_variables(qbs[1], variables, replace))

SetOffset ==
    /\ MayCall
    /\ \E offset \in Offsets, replace \in BOOLEAN :
          Ends("set_offset", [offset |-> offset, replace |-> replace],
               set_offset(qbs[1], offset, replace))

SetLimit ==
    /\ MayCall
    /\ \E limit \in Limits, replace \in BOOLEAN :
          Ends("set_limit", [limit |-> limit, replace |-> replace],
               set_limit(qbs[1], limit, replace))

\* set_filter is a method of the edgedb class only
SetFilter ==
    /\ MayCall
    /\ qbs[1].cls = "edgedb"
    /\ \E f \in Filters, replace_filter \in BOOLEAN :
          Ends("set_filter", [text |-> f.text, variables |-> f.variables,
                              replace |-> replace_filter],
               set_filter(qbs[1], f.text, f.variables, replace_filter, FALSE))

SetOrderBy ==
    /\ MayCall
    /\ \E o \in OrderBys, replace_order_by \in BOOLEAN :
          Ends("set_order_by", [text |-> o.text, variables |-> o.variables,
                                replace |-> replace_order_by],
               set_order_by(qbs[1], o.text, o.variables, replace_order_by, FALSE))

\* the arguments of a later build of the same builder: those of build_root
\* again, or those of a build as the child at path ("p",) of a builder of
\* alias _p
BuildArgs == {[parent_table_alias |-> "", path |-> "", order_fields_alphabetically |-> FALSE],
              [parent_table_alias |-> "_p", path |-> "p",
               order_fields_alphabetically |-> FALSE]}

\* the builder is built a second time: build(parent_table_alias, path) of the
\* sql class, build() of the edgedb class
BuildAgain ==
    /\ qbOut # NotRun
    /\ qbOut.op = "build" /\ ~qbOut.raised
    /\ IF qbOut.prev = NotRun THEN TRUE ELSE qbOut.prev.op # "build"
    /\ \E a \in BuildArgs :
          \E r \in {IF qbs[1].cls = "sql"
                    THEN build(qbs, 1, a.parent_table_alias, a.path,
                               a.order_fields_alphabetically)
                    ELSE edgedb_build(qbs, 1) @@ [qbs |-> qbs]} :
             /\ qbOut' = Built(a, r.raised, r.s, r.v)
             /\ qbs' = r.qbs
    /\ UNCHANGED <<qbReq, translateVars, resolveVars, execVars>>

NextSetters ==
    \/ AddVariable
    \/ AddVariables
    \/ SetOffset
    \/ SetLimit
    \/ SetFilter
    \/ SetOrderBy
    \/ Build
    \/ BuildAgain

SpecSetters == InitSetters /\ [][NextSetters]_vars

\* the last call was op
LastCall(op) == qbOut # NotRun /\ qbOut.op = op

\* the last call was a set_limit with a value on a builder whose limit an
\* earlier set_limit with a value had set
SecondSetLimit(out) ==
    /\ out # NotRun
    /\ out.op = "set_limit"
    /\ out.args.limit # NoValue
    /\ ~out.before.limit.none

\* C12: a set_limit with a value on a builder whose limit was set by an
\* earlier set_limit with a value raises QueryBuilderError without replace;
\* with replace=True it returns, binds limit to its value, and a build that
\* follows returns variables binding limit to that value
C12_SetLimitTwice ==
    /\ SecondSetLimit(qbOut) =>
          /\ qbOut.raised <=> ~qbOut.args.replace
          /\ qbOut.args.replace => DictGet(qbs[1].variables, "limit") = qbOut.args.limit
    /\ (LastCall("build") /\ SecondSetLimit(qbOut.prev) /\ qbOut.prev.args.replace) =>
          /\ ~qbOut.raised
          /\ DictGet(qbOut.v, "limit") = qbOut.prev.args.limit

\* a second set_limit with replace=True and another value was followed by
\* build, whose variables bind limit to the second value
C12_Witness ==
    /\ LastCall("build")
    /\ SecondSetLimit(qbOut.prev)
    /\ qbOut.prev.args.replace
    /\ DictGet(qbOut.prev.before.variables, "limit") # qbOut.prev.args.limit
    /\ DictGet(qbOut.v, "limit") = qbOut.prev.args.limit

\* the attribute a set_ method guards
Guarded(qb, op) ==
    CASE op = "set_limit" -> qb.limit
      [] op = "set_offset" -> qb.offset
      [] op = "set_filter" -> qb.filter
      [] op = "set_order_by" -> qb.order_by

\* the value a call of set_limit or set_offset passes
ValuePassed(out) == IF out.op = "set_limit" THEN out.args.limit ELSE out.args.offset

\* some key of the dict variables is a key of the builder's variables
KeyPresent(qb, variables) ==
    \E i \in 1..Len(variables) : DictHas(qb.variables, variables[i][1])

\* C13 as stated: a second call of set_filter, set_order_by, set_limit or
\* set_offset on a builder, and a call of add_variable or add_variables with a
\* key already present, made without the replace flag, raises
\* QueryBuilderError whatever the values of the two calls
C13_SecondCallRaisesAsStated ==
    (qbOut # NotRun /\ qbOut.op # "build" /\ ~qbOut.args.replace) =>
        /\ (qbOut.op \in {"set_filter", "set_order_by", "set_limit", "set_offset"}
                /\ qbOut.op \in qbOut.earlier) => qbOut.raised
        /\ (qbOut.op = "add_variable" /\ DictHas(qbOut.before.variables, qbOut.args.key))
               => qbOut.raised
        /\ (qbOut.op = "add_variables" /\ KeyPresent(qbOut.before, qbOut.args.variables))
               => qbOut.raised

\* C13, amended: without the replace flag, set_limit and set_offset raise
\* exactly when they pass a value and the attribute was set by an earlier call
\* with a value or the variable is bound to another value, and a call with
\* None changes nothing; set_filter and set_order_by raise exactly when the
\* attribute holds a non-empty text or a variable passed is already bound;
\* add_variable raises exactly when the key is bound to a different value;
\* add_variables raises exactly when it passes a key already bound, whatever
\* the values
C13_SecondCallRaises ==
    (qbOut # NotRun /\ qbOut.op # "build" /\ ~qbOut.args.replace) =>
        /\ qbOut.op \in {"set_limit", "set_offset"} =>
              /\ qbOut.raised <=>
                    /\ ValuePassed(qbOut) # NoValue
                    /\ \/ ~Guarded(qbOut.before, qbOut.op).none
                       \/ LET name == IF qbOut.op = "set_limit" THEN "limit" ELSE "offset" IN
                          /\ DictHas(qbOut.before.variables, name)
                          /\ DictGet(qbOut.before.variables, name) # ValuePassed(qbOut)
              /\ ValuePassed(qbOut) = NoValue => qbs[1] = qbOut.before
        /\ qbOut.op \in {"set_filter", "set_order_by"} =>
              (qbOut.raised <=>
                    \/ TextTruthy(Guarded(qbOut.before, qbOut.op))
                    \/ KeyPresent(qbOut.before, qbOut.args.variables))
        /\ qbOut.op = "add_variable" =>
              (qbOut.raised <=>
                    /\ DictHas(qbOut.before.variables, qbOut.args.key)
                    /\ DictGet(qbOut.before.variables, qbOut.args.key) # qbOut.args.val)
        /\ qbOut.op = "add_variables" =>
              (qbOut.raised <=> KeyPresent(qbOut.before, qbOut.args.variables))

\* a set_order_by without replace_order_by has raised on a builder whose
\* order_by an earlier call had set to a non-empty text
C13_Witness ==
    /\ LastCall("set_order_by")
    /\ "set_order_by" \in qbOut.earlier
    /\ TextTruthy(qbOut.before.order_by)
    /\ ~qbOut.args.replace
    /\ qbOut.raised

-----------------------------------------------------------------------------
(* Claims about the coroutines of a request                                 *)

\* C15: resolve_node assembles its result only when every awaitable it
\* dispatched is done, with a value or an exception; no unit is ever
\* cancelled: a unit stays, a finished unit keeps its outcome, and an awaited
\* callable can always return, whatever happened to its siblings
C15_JoinAfterAll ==
    /\ [](\A id \in DOMAIN units : units[id].phase = "call" => ENABLED CallReturns(id))
    /\ [][\A id \in DOMAIN units :
             /\ id \in DOMAIN units'
             /\ units[id].phase = "done" => units'[id] = units[id]
             /\ FrameJoins(id) => AllDone(FrameTasks(id))]_vars

\* an object was assembled after one of its callables raised a GQLError and
\* a sibling callable returned: the sibling's value is in the map
C15_Witness ==
    \E id \in DOMAIN units :
        /\ units[id].phase = "done" /\ units[id].val.t = "map"
        /\ Append(id, "nick") \in DOMAIN units
        /\ Append(id, "tag") \in DOMAIN units
        /\ units[Append(id, "nick")].exc = AppGQLError
        /\ units[Append(id, "tag")].val = VStr("tg")
        /\ DictGet(units[id].val.m, "nick") = VNull
        /\ DictGet(units[id].val.m, "tag") = VStr("tg")

\* unit t is an object that a nullability violation at one of its fields made
\* resolve to null
Collapsed(t) ==
    /\ units[t].phase = "done" /\ units[t].val = VNull /\ units[t].exc = NoExc
    /\ \E i \in 1..Len(errors) :
          /\ errors[i].message = NullabilityMessage
          /\ Len(errors[i].path) = Len(units[t].path) + 1
          /\ SubSeq(errors[i].path, 1, Len(units[t].path)) = units[t].path

\* the response keys of frame id that hold a collapsed object
CollapsedKeys(id) ==
    LET keys == DictKeys(FrameDispatch(units[id]).proms_map)
    IN  {keys[i] : i \in {j \in 1..Len(keys) : Collapsed(Append(id, keys[j]))}}

\* resolve_node of frame id resumes, holding a collapsed object and no other
\* null in a field declared non-null
JoinsOverCollapsed(id) ==
    /\ FrameJoins(id)
    /\ units'[id].exc = NoExc
    /\ CollapsedKeys(id) # {}
    /\ \A i \in 1..Len(NullViolations(id)) : NullViolations(id)[i][1] \in CollapsedKeys(id)

OperationsWritten ==
    SelectSeq(rDoc.text.ops, LAMBDA d : d.operation = "query")
        \o SelectSeq(rDoc.text.ops, LAMBDA d : d.operation = "mutation")

\* the response key of a top-level selection as written
KeyWritten(src) == IF src.alias # NoAlias THEN src.alias ELSE src.name

\* C17: whatever operation_name the request passes, every query and mutation
\* operation of the document is resolved, against the Query object or the
\* Mutation object according to its kind, all of them started together, and
\* the data of the Result holds every top-level response key of every one of
\* them
C17_AllOperationsResolved ==
    /\ []((rResult # NotRun /\ rResult.k = "result") =>
            /\ Len(rDoc.root_nodes) = Len(rDoc.text.ops)
            /\ \A i \in 1..Len(OperationsWritten) :
                  /\ RootId(i) \in DOMAIN units
                  /\ units[RootId(i)].phase = "done"
                  /\ units[RootId(i)].model =
                         VObj(IF OperationsWritten[i].operation = "mutation" THEN "Mutation"
                              ELSE "Query", <<>>)
                  /\ \A j \in 1..Len(OperationsWritten[i].sels) :
                        DictHas(rResult.data.m, KeyWritten(OperationsWritten[i].sels[j])))
    /\ [][(units = NoUnits /\ units' # NoUnits) =>
             \A i \in 1..Len(OperationsWritten) : RootId(i) \in DOMAIN units']_vars

\* `query Q { ping } mutation M { touch }` executed with operation_name "Q":
\* the data holds the keys of both operations
C17_Witness ==
    /\ rResult # NotRun
    /\ rResult.k = "result"
    /\ rEnv.operation_name = VStr("Q")
    /\ Len(rDoc.text.ops) = 2
    /\ rResult.data = VMap(<< <<"ping", VStr("pong")>>, <<"touch", VStr("ok")>> >>)

\* a callable's argument failed validation in build_kwargs
CoercionFailed ==
    \E id \in DOMAIN units :
        units[id].phase = "done" /\ units[id].exc = PlainExc("ValidationError")

\* C18: when an argument of a function-backed field fails to coerce to the
\* type of the callable's parameter, the operation is aborted: execute does
\* not return data in which only that field is null
C18_CoercionIsFatal ==
    (CoercionFailed /\ rResult # NotRun) =>
        (rResult.k = "raised" \/ rResult.data = VNull)

\* C20: when execute has returned its Result, every unit of work of the
\* request is done and Resolver.errors is what the Result was made from
C20_NothingRunsAfterResult ==
    (rResult # NotRun /\ rResult.k = "result") =>
        /\ \A id \in DOMAIN units : units[id].phase = "done"
        /\ errors = rResult.errors

-----------------------------------------------------------------------------
(* Claims about the document after translation                              *)

\* the FieldNode of a top-level field written as src, translated in a
\* document of its own with the same fragment definitions
AloneField(src) ==
    translate(parse([ops |-> <<Query(<<src>>)>>, frags |-> tDoc.text.frags]))
        .nodes[1].children[1]

\* the top-level selections of the text's operation are fields, the j-th one
\* selecting fragment spreads only
SpreadSite(j) ==
    LET sels == tDoc.text.ops[1].sels IN
    /\ \A i \in 1..Len(sels) : sels[i].k = "field"
    /\ sels[j].sels # <<>>
    /\ \A i \in 1..Len(sels[j].sels) : sels[j].sels[i].k = "spread"

\* C19: after translate, every SelectionSetNode of the parsed document, those
\* of the fragment definitions included, holds the selections it was parsed
\* with, and a field that only spreads fragments has the children the
\* fragments give it in a document where nothing else is merged
C19_DocumentNeverAltered ==
    (tOut # NotRun /\ ~tOut.raised) =>
        /\ \A i \in 1..Len(parse(tDoc.text).cells) :
              tDoc.document.cells[i] = parse(tDoc.text).cells[i]
        /\ \A j \in 1..Len(tDoc.text.ops[1].sels) :
              SpreadSite(j) =>
                  tOut.root_nodes[1].children[j] = AloneField(tDoc.text.ops[1].sels[j])

-----------------------------------------------------------------------------
(* C21: the keys of a resolved object and their values                      *)

\* the FieldNodes that apply to an object of the given type: the direct
\* children and the children of the matching inline fragments
RECURSIVE ApplicableFields(_, _)
ApplicableFields(children, type) ==
    IF children = <<>> THEN <<>>
    ELSE LET child == Head(children) IN
         (IF child.k = "inline"
          THEN IF child.name = type THEN ApplicableFields(child.children, type) ELSE <<>>
          ELSE <<child>>) \o ApplicableFields(Tail(children), type)

\* the field is a plain data attribute of the model
IsDataAttribute(model, child) ==
    child.name # "__typename" /\ DictHas(model.fields, child.name) /\ child.children = <<>>

\* the value of the field child of frame id on its own: the type name, the
\* dumped attribute, or what its awaitable returned (None when it raised)
OwnValue(id, child) ==
    LET model == units[id].model
        t == Append(id, ResponseKey(child))
    IN  IF child.name = "__typename" THEN VStr(model.type)
        ELSE IF IsDataAttribute(model, child)
        THEN DictGet(model_dump(model).m, child.name)
        ELSE IF t \in DOMAIN units /\ units[t].exc = NoExc THEN units[t].val ELSE VNull

\* one data attribute is selected under two different aliases
TwoAliases(model, fields) ==
    \E i, j \in 1..Len(fields) :
        /\ IsDataAttribute(model, fields[i]) /\ IsDataAttribute(model, fields[j])
        /\ fields[i].name = fields[j].name
        /\ fields[i].alias # NoAlias /\ fields[j].alias # NoAlias
        /\ fields[i].alias # fields[j].alias

\* C21: every object resolve_node has resolved to a map has as its key set
\* the response keys of the FieldNodes applicable to the object, each key
\* carrying the value of a field of that response key; and resolving an object
\* on which one data attribute is selected under two aliases does not fail
\* for a missing key.
C21_KeysCarryOwnValues ==
    \A id \in DOMAIN units :
        (units[id].phase = "done" /\ units[id].node.k = "field"
            /\ units[id].model # VNull /\ units[id].model.t = "obj")
        => LET fields == ApplicableFields(units[id].node.children, units[id].model.type)
               r == units[id]
           IN  /\ (r.exc = NoExc /\ r.val.t = "map")
                  => /\ SeqToSet(DictKeys(r.val.m)) =
                            {ResponseKey(fields[i]) : i \in 1..Len(fields)}
                     /\ \A k \in 1..Len(r.val.m) :
                           \E i \in 1..Len(fields) :
                               /\ ResponseKey(fields[i]) = r.val.m[k][1]
                               /\ r.val.m[k][2] = OwnValue(id, fields[i])
               /\ TwoAliases(r.model, fields) => r.exc # PlainExc("KeyError")

-----------------------------------------------------------------------------
(* C22: a fragment spread is inlined at the spread site                     *)

FragmentMark(type_condition) == [k |-> "inline", key |-> type_condition]
FieldMark(key) == [k |-> "field", key |-> key]

\* the keys the selections written declare, in the order written, the
\* selections of a spread fragment standing where the spread stands
RECURSIVE WrittenKeys(_, _)
WrittenKeys(srcs, frags) ==
    IF srcs = <<>> THEN <<>>
    ELSE LET src == Head(srcs) IN
         (CASE src.k = "spread" ->
                   IF DictHas(frags, src.name)
                   THEN WrittenKeys(DictGet(frags, src.name), frags) ELSE <<>>
            [] src.k = "inline" -> <<FragmentMark(src.name)>>
            [] OTHER -> <<FieldMark(IF src.alias # NoAlias THEN src.alias ELSE src.name)>>)
             \o WrittenKeys(Tail(srcs), frags)

\* s without the later occurrences of a field key
RECURSIVE FirstFields(_, _)
FirstFields(s, seen) ==
    IF s = <<>> THEN <<>>
    ELSE IF Head(s).k = "field" /\ Head(s) \in seen THEN FirstFields(Tail(s), seen)
    ELSE <<Head(s)>> \o FirstFields(Tail(s), seen \cup {Head(s)})

\* the keys of a translated children list, in order
TranslatedKeys(children) ==
    [i \in 1..Len(children) |->
        IF children[i].k = "inline" THEN FragmentMark(children[i].name)
        ELSE FieldMark(ResponseKey(children[i]))]

\* C22: the children Translator.translate returns for the first top-level
\* field are the selections written under it in the order written, every
\* spread replaced at its own position by the selections of its fragment
\* (a key written twice stands where it is first written), and no child
\* stands for the spread itself.
C22_SpreadInlinedAtSite ==
    (tOut # NotRun /\ ~tOut.raised)
    => TranslatedKeys(tOut.root_nodes[1].children[1].children) =
           FirstFields(WrittenKeys(tDoc.text.ops[1].sels[1].sels, tDoc.text.frags), {})

-----------------------------------------------------------------------------
(* C23: inline fragments and the runtime type                               *)

\* the field is resolved by awaiting a callable or a nested resolve_node
IsAwaited(model, child) == child.name # "__typename" /\ ~IsDataAttribute(model, child)

\* the last components of the units started directly under unit id
StartedUnder(id) ==
    {t[Len(t)] : t \in {x \in DOMAIN units :
                            Len(x) = Len(id) + 1 /\ SubSeq(x, 1, Len(id)) = id}}

\* C23: when resolve_node returns for an object, the awaitables it started are
\* those of the direct children and of the children of the inline fragments
\* whose type condition is the object's type name, and no others; a map it
\* returns has exactly the keys these children declare, a matching fragment's
\* children at the fragment's position; and what it returns is what it
\* returns for the same selection with every matching fragment replaced by
\* its children and every other fragment removed.
C23_OnlyMatchingFragments ==
    [][\A id \in DOMAIN units :
          FrameJoins(id)
          => LET u == units[id]
                 fields == ApplicableFields(u.node.children, u.model.type)
                 awaited == SelectSeq(fields, LAMBDA f : IsAwaited(u.model, f))
                 inlined == dispatch(fields, u.model, u.path, rEnv.variables, DispatchStart)
                 tasks == FrameTasks(id)
                 r == assemble(inlined, [i \in 1..Len(tasks) |-> units[tasks[i]]],
                               u.model, u.path, errors)
             IN  /\ StartedUnder(id) = {ResponseKey(awaited[i]) : i \in 1..Len(awaited)}
                 /\ units'[id].val.t = "map"
                    => DictKeys(units'[id].val.m) =
                           FirstOccurrences(DeclaredKeys(u.node.children, u.model.type), {})
                 /\ units'[id] = Finished(u, r.val, r.exc)
                 /\ errors' = r.errs]_vars

\* an Admin was resolved under a selection with a fragment on User holding a
\* callable and a fragment on Admin: the callable was not started and the map
\* has the Admin fragment's key only
C23_Witness ==
    LET id == <<"op1", "account">> IN
    /\ id \in DOMAIN units
    /\ units[id].phase = "done"
    /\ units[id].model = AdminObj
    /\ [i \in 1..Len(units[id].node.children) |-> units[id].node.children[i].name]
           = <<"User", "Admin">>
    /\ units[id].node.children[1].children[1].name = "tag"
    /\ Append(id, "tag") \notin DOMAIN units
    /\ units[id].val = VMap(<< <<"level", VStr("3")>> >>)

-----------------------------------------------------------------------------
(* C24: from_info and the properties                                        *)

\* the FieldNodes from_info looks at for one builder, in the order of its
\* queue: the children of an inline fragment go to the end of the queue
RECURSIVE QueueOrder(_)
QueueOrder(children_q) ==
    IF children_q = <<>> THEN <<>>
    ELSE IF Head(children_q).k = "inline"
    THEN QueueOrder(Tail(children_q) \o Head(children_q).children)
    ELSE <<Head(children_q)>> \o QueueOrder(Tail(children_q))

\* the selected occurrences of properties of User under the root field: all
\* of them, those with a path, those with update_tag
PropertyOccurrences ==
    SelectSeq(QueueOrder(qbReq.node.children),
              LAMBDA c : DictHas(ConfigProperties("User"), c.name))
WithPath == SelectSeq(PropertyOccurrences,
                      LAMBDA c : DictGet(ConfigProperties("User"), c.name) # <<>>)
WithUpdateTag == SelectSeq(PropertyOccurrences, LAMBDA c : PropertyUpdatesWhere(c.name))

\* the where clause after n calls of update_tag on a new builder
RECURSIVE TaggedTimes(_)
TaggedTimes(n) ==
    IF n = 0 THEN <<>>
    ELSE IF n = 1 THEN <<Current, Tok(".tagged")>>
    ELSE TaggedTimes(n - 1) \o <<Tok("AND"), Current, Tok(".tagged")>>

FieldSelections(qb) == SelectSeq(qb.selections, LAMBDA x : x.k = "field")

FromInfoReturned == qbOut # NotRun /\ qbOut.op = "from_info" /\ ~qbOut.raised

-----------------------------------------------------------------------------
(* C25: from_info and the hook of a link                                    *)

\* the children of the root field that select friends with a limit
LimitedFriends ==
    SelectSeq(qbReq.node.children,
              LAMBDA c : c.k = "field" /\ LinkUpdatesLimit(c.name)
                            /\ \E i \in 1..Len(c.arguments) : c.arguments[i].name = "limit")

\* the limit given to child, every variable reference substituted from the
\* request's variables
LimitGiven(child) ==
    LET given == SelectSeq(child.arguments, LAMBDA a : a.name = "limit")
    IN  validate_python("int", parse_value(qbReq.variables, given[Len(given)].value))

\* the builder from_info made for child
ChildBuilder(child) ==
    LET subs == SelectSeq(qbs[1].selections,
                          LAMBDA x : x.k = "sub" /\ x.name = ResponseKey(child))
    IN  qbs[subs[1].qb]

\* C25: from_info returns for every request whose friends links are given a
\* limit, literal or variable; update_friends has then set on the builder of
\* each such link the limit given, a variable reference replaced by the
\* variable's value; and the text build returns for the root holds the
\* reference to that limit.
C25_HookGetsSubstitutedArguments ==
    /\ (qbOut # NotRun /\ qbOut.op = "from_info")
       => /\ ~qbOut.raised
          /\ \A i \in 1..Len(LimitedFriends) :
                LET qb == ChildBuilder(LimitedFriends[i]) IN
                /\ TextTruthy(qb.limit)
                /\ DictHas(qb.variables, "limit")
                /\ DictGet(qb.variables, "limit") = LimitGiven(LimitedFriends[i])
    /\ BuiltText
       => \A i \in 1..Len(LimitedFriends) :
             \E tok \in RefsOf(qbOut.s) : tok.val = LimitGiven(LimitedFriends[i])

-----------------------------------------------------------------------------
(* C26: a mutation method that raises                                       *)

\* C26: when add_variables, set_limit, set_offset, set_filter or set_order_by
\* raises QueryBuilderError, the builder is as it was before the call: its
\* clause fields and its variables are unchanged.
C26_RaiseLeavesBuilderUnchanged ==
    (/\ qbOut # NotRun
     /\ qbOut.op \in {"add_variables", "set_limit", "set_offset", "set_filter",
                      "set_order_by"}
     /\ qbOut.raised)
    => qbs[1] = qbOut.before

-----------------------------------------------------------------------------
(* SpecPrepare: prepare_query_asyncpg and prepare_query_psycopg (sql        *)
(* query_builder.py 408-461), which build_root_asyncpg and build_root apply *)
(* to the text build returns.  They work on the characters of the text, so  *)
(* here a text is a sequence of characters and a parameter name too.        *)

\* \w on the characters of the model
WordChars == {"a", "b", "_"} \cup {ToString(d) : d \in 0..9}

\* the index of the last character of the run of word characters at i
RECURSIVE WordEnd(_, _)
WordEnd(sql, i) ==
    IF i < Len(sql) /\ sql[i + 1] \in WordChars THEN WordEnd(sql, i + 1) ELSE i

\* re.findall(r"\$(\w+)", sql), from index i on
RECURSIVE re_findall(_, _)
re_findall(sql, i) ==
    IF i > Len(sql) THEN <<>>
    ELSE IF sql[i] = "$" /\ i < Len(sql) /\ sql[i + 1] \in WordChars
    THEN LET j == WordEnd(sql, i + 1)
         IN  <<SubSeq(sql, i + 1, j)>> \o re_findall(sql, j + 1)
    ELSE re_findall(sql, i + 1)

\* str.replace(old, new): every occurrence of old, left to right
RECURSIVE str_replace(_, _, _)
str_replace(s, old, new) ==
    IF Len(s) < Len(old) THEN s
    ELSE IF SubSeq(s, 1, Len(old)) = old
    THEN new \o str_replace(SubSeq(s, Len(old) + 1, Len(s)), old, new)
    ELSE <<Head(s)>> \o str_replace(Tail(s), old, new)

\* the loop of prepare_query_asyncpg over enumerate(unique_params, start=i)
RECURSIVE replace_positional(_, _, _)
replace_positional(sql, unique_params, i) ==
    IF unique_params = <<>> THEN sql
    ELSE replace_positional(
             str_replace(sql, <<"$">> \o Head(unique_params), <<"$", ToString(i)>>),
             Tail(unique_params), i + 1)

\* prepare_query_asyncpg(sql, params): the text and the list of values, or
\* the KeyError of params[param]
prepare_query_asyncpg(sql, params) ==
    LET named_params == re_findall(sql, 1)
        unique_params == FirstOccurrences(named_params, {})
    IN  IF \E i \in 1..Len(unique_params) : ~DictHas(params, unique_params[i])
        THEN [raised |-> TRUE, s |-> <<>>, v |-> <<>>]
        ELSE [raised |-> FALSE,
              s |-> replace_positional(sql, unique_params, 1),
              v |-> [i \in 1..Len(unique_params) |-> DictGet(params, unique_params[i])]]

\* %(param)s
PyFormat(param) == <<"%", "(">> \o param \o <<")", "s">>

\* the loop of prepare_query_psycopg over named_params
RECURSIVE replace_pyformat(_, _)
replace_pyformat(sql, named_params) ==
    IF named_params = <<>> THEN sql
    ELSE replace_pyformat(
             str_replace(sql, <<"$">> \o Head(named_params), PyFormat(Head(named_params))),
             Tail(named_params))

\* prepare_query_psycopg(sql, params): the text and the dict of parameters
prepare_query_psycopg(sql, params) ==
    LET named_params == re_findall(sql, 1)
        unique_params == FirstOccurrences(named_params, {})
    IN  IF \E i \in 1..Len(named_params) : ~DictHas(params, named_params[i])
        THEN [raised |-> TRUE, s |-> <<>>, v |-> <<>>]
        ELSE [raised |-> FALSE,
              s |-> replace_pyformat(sql, named_params),
              v |-> [i \in 1..Len(unique_params) |->
                        <<unique_params[i], DictGet(params, unique_params[i])>>]]

\* the most placeholders in a text
MaxPlaceholders == 3

\* the names of the parameters
ParamNames == {<<"a">>, <<"a", "b">>, <<"b">>, <<"b", "_", "a">>}

\* the placeholders of names, one space between two
RECURSIVE SqlOf(_)
SqlOf(names) ==
    IF names = <<>> THEN <<>>
    ELSE IF Len(names) = 1 THEN <<"$">> \o Head(names)
    ELSE <<"$">> \o Head(names) \o <<" ">> \o SqlOf(Tail(names))

\* a text with the placeholders of names, and a value for every name in it
InitPrepare ==
    /\ \E names \in SeqsUpTo(ParamNames, MaxPlaceholders) \ {<<>>} :
          LET unique == FirstOccurrences(names, {}) IN
          qbReq = [k |-> "sql", names |-> names, sql |-> SqlOf(names),
                   params |-> [i \in 1..Len(unique) |-> <<unique[i], VInt(i)>>]]
    /\ qbs = <<>>
    /\ qbOut = NotRun
    /\ TranslateIdle
    /\ ResolveIdle
    /\ ExecIdle

Prepared(op, r) == [op |-> op, raised |-> r.raised, s |-> r.s, v |-> r.v]

PrepareQueryAsyncpg ==
    /\ qbOut = NotRun
    /\ qbOut' = Prepared("prepare_query_asyncpg",
                         prepare_query_asyncpg(qbReq.sql, qbReq.params))
    /\ UNCHANGED <<qbReq, qbs, translateVars, resolveVars, execVars>>

PrepareQueryPsycopg ==
    /\ qbOut = NotRun
    /\ qbOut' = Prepared("prepare_query_psycopg",
                         prepare_query_psycopg(qbReq.sql, qbReq.params))
    /\ UNCHANGED <<qbReq, qbs, translateVars, resolveVars, execVars>>

NextPrepare ==
    \/ PrepareQueryAsyncpg
    \/ PrepareQueryPsycopg

SpecPrepare == InitPrepare /\ [][NextPrepare]_vars

\* the position of name in names
PositionIn(names, name) == CHOOSE i \in 1..Len(names) : names[i] = name

\* the parts with one space between two
RECURSIVE JoinSpaces(_)
JoinSpaces(parts) ==
    IF parts = <<>> THEN <<>>
    ELSE IF Len(parts) = 1 THEN Head(parts)
    ELSE Head(parts) \o <<" ">> \o JoinSpaces(Tail(parts))

\* the text in which the placeholder of each name of names is the driver
\* placeholder Driver(name)
Converted(names, Driver(_)) == JoinSpaces([i \in 1..Len(names) |-> Driver(names[i])])

\* C27: the text prepare_query_asyncpg returns has, in place of every $name,
\* the positional placeholder $i of that parameter, and the i-th value
\* returned is the value of that parameter; the text prepare_query_psycopg
\* returns has %(name)s in place of every $name and the dict returned gives
\* each name its value; neither raises.
C27_PlaceholdersConverted ==
    qbOut # NotRun
    => LET unique == FirstOccurrences(qbReq.names, {})
           Positional(name) == <<"$", ToString(PositionIn(unique, name))>>
       IN  /\ ~qbOut.raised
           /\ qbOut.op = "prepare_query_asyncpg"
              => /\ qbOut.s = Converted(qbReq.names, Positional)
                 /\ qbOut.v = [i \in 1..Len(unique) |-> DictGet(qbReq.params, unique[i])]
           /\ qbOut.op = "prepare_query_psycopg"
              => /\ qbOut.s = Converted(qbReq.names, PyFormat)
                 /\ \A i \in 1..Len(unique) :
                       /\ DictHas(qbOut.v, unique[i])
                       /\ DictGet(qbOut.v, unique[i]) = DictGet(qbReq.params, unique[i])

-----------------------------------------------------------------------------
(* C28: build is repeatable                                                 *)

\* the last call was the second build of the builder
BuiltAgain ==
    /\ qbOut # NotRun /\ qbOut.op = "build"
    /\ qbOut.prev # NotRun /\ qbOut.prev.op = "build"

\* C28: the text and the variables a second build returns are those the same
\* call returns on the builder as it was before it was ever built, and no
\* build changes the selections or the variables of the builder.
C28_BuildRepeatable ==
    BuiltAgain
    => LET never_built == qbOut.prev.before
           first == IF never_built[1].cls = "sql"
                    THEN build(never_built, 1, qbOut.args.parent_table_alias,
                               qbOut.args.path, qbOut.args.order_fields_alphabetically)
                    ELSE edgedb_build(never_built, 1)
       IN  /\ qbOut.raised = first.raised
           /\ qbOut.s = first.s
           /\ qbOut.v = first.v
           /\ \A id \in DOMAIN qbs :
                 /\ qbs[id].selections = never_built[id].selections
                 /\ qbs[id].fields = never_built[id].fields
                 /\ qbs[id].children = never_built[id].children
                 /\ qbs[id].variables = never_built[id].variables

-----------------------------------------------------------------------------
(* SpecOrder: an application adds fields and child edges to one builder, of *)
(* either class, in any order, and builds it.                               *)

\* the selections and child edges added to the builder
MaxAdded == 3

OwnFields == {"id", "first_name"}
ChildNames == {"best", "friends"}

\* the names of the fields and children of the first builder
AddedNames ==
    IF qbs[1].cls = "sql"
    THEN {qbs[1].selections[i].name : i \in DOMAIN qbs[1].selections}
    ELSE qbs[1].fields \cup {qbs[1].children[i][1] : i \in DOMAIN qbs[1].children}

MayAdd(name) ==
    /\ qbOut = NotRun
    /\ Cardinality(AddedNames) < MaxAdded
    /\ name \notin AddedNames

InitOrder ==
    /\ \E cls \in {"sql", "edgedb"} :
          /\ qbReq = [k |-> "class", cls |-> cls]
          /\ qbs = <<QueryBuilder(cls, "User", "ONE")>>
    /\ qbOut = NotRun
    /\ TranslateIdle
    /\ ResolveIdle
    /\ ExecIdle

\* qb.sel(name, "$current.name") of the sql class, qb.fields.add(name) of the
\* edgedb class
AddField ==
    /\ \E name \in OwnFields :
          /\ MayAdd(name)
          /\ qbs' = [qbs EXCEPT ![1] =
                        IF @.cls = "sql" THEN sel(@, name, <<>>)
                        ELSE [@ EXCEPT !.fields = @ \cup {name}]]
    /\ UNCHANGED <<qbReq, qbOut, translateVars, resolveVars, execVars>>

\* a child builder that selects id, with the limit given: the argument of
\* sel_sub, or the qb of a ChildEdge
ChildOf(cls, name, limit) ==
    LET child == IF cls = "sql"
                 THEN set_from(sel(QueryBuilder(cls, "User", LinkCardinality(name)),
                                   "id", <<>>),
                               LinkFrom(name)).qb
                 ELSE [QueryBuilder(cls, "User", LinkCardinality(name))
                          EXCEPT !.fields = {"id"}]
    IN  set_limit(child, limit, FALSE).qb

\* qb.sel_sub(name, child) of the sql class, qb.children[name] =
\* ChildEdge(db_expression, child) of the edgedb class
AddChild ==
    /\ \E name \in ChildNames, limit \in {NoValue} \cup {VInt(n) : n \in 1..MaxLimit},
          db_expression \in {"", ".all_friends"} :
          /\ MayAdd(name)
          /\ qbs[1].cls = "sql" => db_expression = ""
          /\ qbs' = Append([qbs EXCEPT ![1] =
                               IF @.cls = "sql" THEN sel_sub(@, name, Len(qbs) + 1)
                               ELSE [@ EXCEPT !.children =
                                        Append(@, <<name, ChildEdge(db_expression,
                                                                    Len(qbs) + 1)>>)]],
                           ChildOf(qbs[1].cls, name, limit))
    /\ UNCHANGED <<qbReq, qbOut, translateVars, resolveVars, execVars>>

NextOrder ==
    \/ AddField
    \/ AddChild
    \/ Build

SpecOrder == InitOrder /\ [][NextOrder]_vars

\* the selections and the child edges of the first builder in the order p
Reordered(store, p) ==
    [store EXCEPT ![1].selections = [i \in DOMAIN @ |-> @[p[i]]],
                  ![1].children = [i \in DOMAIN @ |-> @[p[i]]]]

\* the text of the build of the first builder of store, as the last build
\* was called
TextBuilt(store) ==
    IF store[1].cls = "sql"
    THEN build(store, 1, "", "", qbOut.args.order_fields_alphabetically).s
    ELSE edgedb_build(store, 1).s

\* two builders hold different values under one variable name
VariablesCollide(store) ==
    \E a, b \in DOMAIN store :
       \E i \in DOMAIN store[a].variables, j \in DOMAIN store[b].variables :
          /\ store[a].variables[i][1] = store[b].variables[j][1]
          /\ store[a].variables[i][2] # store[b].variables[j][2]

\* the last build is one that sorts: build() of the edgedb class, or
\* build_root(order_fields_alphabetically=True) of the sql class
BuiltSorted ==
    /\ qbOut # NotRun
    /\ qbOut.op = "build" /\ ~qbOut.raised
    /\ qbOut.before[1].cls = "sql" => qbOut.args.order_fields_alphabetically

\* C29: the text of a build that sorts (edgedb build; sql build with
\* order_fields_alphabetically) is the text of the build of the same builder
\* with its selections and child edges added in any other order, when no two
\* of the builders hold different values under one variable name.
C29_TextIndependentOfInsertionOrder ==
    (BuiltSorted /\ ~VariablesCollide(qbOut.before))
    => LET added == 1..(Len(qbOut.before[1].selections) + Len(qbOut.before[1].children))
       IN  \A p \in Permutations(added) :
              TextBuilt(Reordered(qbOut.before, p)) = qbOut.s

\* a sorting build of a builder of three names that were not added in sorted
\* order, two of them children of which one holds a variable
C29_Witness ==
    /\ BuiltSorted
    /\ ~VariablesCollide(qbOut.before)
    /\ Cardinality({i \in DOMAIN qbOut.before : qbOut.before[i].variables # <<>>}) = 1
    /\ LET root == qbOut.before[1]
           names == IF root.cls = "sql"
                    THEN [i \in DOMAIN root.selections |-> root.selections[i].name]
                    ELSE [i \in DOMAIN root.children |-> root.children[i][1]]
       IN  /\ Len(qbOut.before) = 3
           /\ \/ names = <<"id", "friends", "best">>
              \/ names = <<"friends", "best">> /\ root.fields = {"id"}

-----------------------------------------------------------------------------
(* SpecMerge: build_child_var_name, statement by statement, and the merge   *)
(* of the variables of a child into a variable map (build_subquery lines    *)
(* 232-247, edgedb build lines 54-69), on any child name, child variables   *)
(* and map.                                                                 *)

\* the dicts with some of the keys, in their order, and values 1..MaxLimit
RECURSIVE DictsOver(_)
DictsOver(keys) ==
    IF keys = <<>> THEN {<<>>}
    ELSE LET rest == DictsOver(Tail(keys))
         IN  rest \cup {<< <<Head(keys), VInt(n)>> >> \o d : n \in 1..MaxLimit, d \in rest}

\* the names a map may hold: a variable name and the names build_child_var_name
\* makes of it for the child best
MapKeys == <<"limit", "_best_limit", "_best__best_limit">>
ChildKeys == <<"limit", "_best_limit">>
MergedNames == {"best", "f__2"}

\* the text of a child that refers to each of its variables v
ChildText(v) == [i \in DOMAIN v |-> RefTok(v[i][1], v[i][2])]

InitMerge ==
    /\ \E name \in MergedNames, variables \in DictsOver(MapKeys),
          v \in DictsOver(ChildKeys) \cup DictsOver(<<ChildKeys[2], ChildKeys[1]>>) :
          qbReq = [k |-> "merge", name |-> name, v |-> v, variables |-> variables]
    /\ qbs = <<>>
    /\ qbOut = NotRun
    /\ TranslateIdle
    /\ ResolveIdle
    /\ ExecIdle

\* build_child_var_name(child_name, var_name, variables_to_use) is called:
\* child_name = re.sub(...); count = 0
RenameCall ==
    /\ qbOut = NotRun
    /\ \E var_name \in {ChildKeys[i] : i \in DOMAIN ChildKeys} :
          qbOut' = [op |-> "build_child_var_name", arg |-> var_name,
                    child_name |-> sanitize_child_name(qbReq.name),
                    count |-> 0, var_name |-> var_name, returned |-> FALSE]
    /\ UNCHANGED <<qbReq, qbs, translateVars, resolveVars, execVars>>

\* one turn of `while var_name in variables_to_use`
RenameLoop ==
    /\ qbOut # NotRun
    /\ qbOut.op = "build_child_var_name" /\ ~qbOut.returned
    /\ DictHas(qbReq.variables, qbOut.var_name)
    /\ LET count_str == IF qbOut.count = 0 THEN "" ELSE "_" \o ToString(qbOut.count)
       IN  qbOut' = [qbOut EXCEPT
                        !.var_name = "_" \o qbOut.child_name \o count_str \o "_" \o @]
    /\ UNCHANGED <<qbReq, qbs, translateVars, resolveVars, execVars>>

\* return var_name
RenameReturn ==
    /\ qbOut # NotRun
    /\ qbOut.op = "build_child_var_name" /\ ~qbOut.returned
    /\ ~DictHas(qbReq.variables, qbOut.var_name)
    /\ qbOut' = [qbOut EXCEPT !.returned = TRUE]
    /\ UNCHANGED <<qbReq, qbs, translateVars, resolveVars, execVars>>

\* the loop over v.items() of build_subquery
MergeChild ==
    /\ qbOut = NotRun
    /\ \E m \in {merge_child_variables(qbReq.name, ChildText(qbReq.v), qbReq.v,
                                       qbReq.variables)} :
          qbOut' = [op |-> "merge", s |-> m.s, v |-> m.variables]
    /\ UNCHANGED <<qbReq, qbs, translateVars, resolveVars, execVars>>

NextMerge ==
    \/ RenameCall
    \/ RenameLoop
    \/ RenameReturn
    \/ MergeChild

SpecMerge == InitMerge /\ [][NextMerge]_vars

\* a call that can take a step does take one
FairMerge == SpecMerge /\ WF_vars(NextMerge)

RenameCalled == qbOut # NotRun /\ qbOut.op = "build_child_var_name"
RenameReturned == RenameCalled /\ qbOut.returned
Merged == qbOut # NotRun /\ qbOut.op = "merge"

\* the name returned is not a key of the map, and is the name the merge uses
ReturnsFreshName ==
    RenameReturned
    => /\ ~DictHas(qbReq.variables, qbOut.var_name)
       /\ qbOut.var_name = build_child_var_name(qbReq.name, qbOut.arg, qbReq.variables)

\* every variable of the map is in the merged map with the value it had
KeepsValues ==
    Merged
    => \A i \in DOMAIN qbReq.variables :
          /\ DictHas(qbOut.v, qbReq.variables[i][1])
          /\ DictGet(qbOut.v, qbReq.variables[i][1]) = qbReq.variables[i][2]

\* C30: every call of build_child_var_name returns, the name it returns is
\* not a key of the variable map, and the merge of a child's variables leaves
\* every variable of the map with the value it had.
C30_RenameTerminatesAndKeepsValues ==
    /\ [](ReturnsFreshName /\ KeepsValues)
    /\ RenameCalled ~> RenameReturned

\* a call that returned after two turns of the loop
C30_Witness ==
    /\ RenameReturned
    /\ qbOut.arg = "limit"
    /\ qbOut.var_name = "_best__best_limit"

\* a merge that renamed a variable of the child, into a map that held the
\* first name tried too
C30_MergeRenamed ==
    /\ Merged
    /\ DictHas(qbReq.variables, "limit") /\ DictHas(qbReq.variables, "_best_limit")
    /\ DictHas(qbReq.v, "limit")
    /\ DictGet(qbReq.v, "limit") # DictGet(qbReq.variables, "limit")
    /\ ~DictHas(qbReq.variables, "_best__best_limit")
    /\ DictHas(qbOut.v, "_best__best_limit")

====
